---- MODULE Spec2Model ----
(***************************************************************************)
(* Remote account dereferencing of internal/federation/dereferencing:      *)
(* GetAccountByURI, GetAccountByUsernameDomain, RefreshAccount,            *)
(* RefreshAccountAsync, enrichAccountSafely, enrichAccount and the fetch of *)
(* the avatar and header media, run by concurrent goroutines against one   *)
(* database, one per-URI lock map, one federator worker queue, one media   *)
(* manager and one untrusted remote server.                                *)
(***************************************************************************)
EXTENDS Integers, Sequences, FiniteSets, TLC

(* ------------------------------ bounds -------------------------------- *)

\* Public calls started in one behaviour.
MaxCalls == 2

\* Last instant of the clock; the clock starts at StartTime.
MaxTime == 4

\* Most items of one featured collection.
MaxItems == 2

\* Most emojis of one account.
MaxEmojis == 2

\* The goroutines that call into the dereferencer.
Callers == {"c1", "c2"}

(* --------------------------- configuration ---------------------------- *)

\* config.GetHost() and config.GetAccountDomain().
Host == "gts.local"
AccountDomain == "gts.local"

\* DefaultAccountFreshness, in clock units (a nil window falls back to it).
DefaultAccountFreshness == 1

\* The clock value at the first state: an account never fetched (FetchedAt
\* zero) and an account fetched at instant 1 are both stale by then.
StartTime == DefaultAccountFreshness + 2

(* ------------------------- the remote server -------------------------- *)

\* The remote actor alice@ex.org, served by host s.ex.org: her ActivityPub
\* id, her profile URL, and an old URI that redirects to the id.
AliceURI == "https://s.ex.org/users/alice"
AliceURL == "https://s.ex.org/@alice"
AliasURI == "https://old.org/users/alice"
\* The id of another actor, served when the remote answers with the wrong
\* document.
MalloryURI == "https://s.ex.org/users/mallory"
\* The id of bob@ex.org, an actor of the same host.
BobURI == "https://s.ex.org/users/bob"
\* A URI on this instance for which no account exists.
LocalURI == "https://gts.local/users/nobody"
\* The URI of the account admin of this instance.
AdminURI == "https://gts.local/users/admin"

RemoteURIs == {AliceURI, AliceURL, AliasURI}
LookupDomains == {"ex.org", "s.ex.org"}

\* The featured collection of alice, and the statuses a collection may
\* name: three of alice, one of bob, a boost made by alice, and one on
\* another host.
FeaturedURI == "https://s.ex.org/users/alice/collections/featured"
S1 == "https://s.ex.org/users/alice/statuses/1"
S2 == "https://s.ex.org/users/alice/statuses/2"
S3 == "https://s.ex.org/users/alice/statuses/3"
BobStatus == "https://s.ex.org/users/bob/statuses/1"
BoostStatus == "https://s.ex.org/users/alice/statuses/4"
ForeignStatus == "https://evil.example/statuses/1"

\* url.URL.Host of the URIs above.
HostOf(u) ==
    CASE u \in {AliceURI, AliceURL, MalloryURI, BobURI} -> "s.ex.org"
      [] u = AliasURI -> "old.org"
      [] u \in {LocalURI, AdminURI} -> Host
      [] u \in {FeaturedURI, S1, S2, S3, BobStatus, BoostStatus} -> "s.ex.org"
      [] u = ForeignStatus -> "evil.example"
      [] OTHER -> ""

(* ------------------------------ values -------------------------------- *)

\* gtsmodel.Account: the zero value stands for a nil *Account (ID 0).
\* avatarURL, headerURL: AvatarRemoteURL, HeaderRemoteURL; avatarID,
\* headerID: AvatarMediaAttachmentID, HeaderMediaAttachmentID (0: empty).
NilAcc ==
    [id |-> 0, uri |-> "", url |-> "", username |-> "", domain |-> "",
     fetchedAt |-> 0, createdAt |-> 0, suspended |-> FALSE,
     avatarURL |-> "", avatarID |-> 0, headerURL |-> "", headerID |-> 0,
     language |-> ""]

\* ap.Accountable: the wire object; id "" stands for nil. ok tells whether
\* the converter accepts it; avatar and header are the URLs of its icon
\* and image; published is its publish time (0: the object has none).
NilWire ==
    [id |-> "", url |-> "", username |-> "", ok |-> FALSE,
     avatar |-> "", header |-> "", published |-> 0]
AliceWire ==
    [id |-> AliceURI, url |-> AliceURL, username |-> "alice", ok |-> TRUE,
     avatar |-> "", header |-> "", published |-> 0]
BadWire == [AliceWire EXCEPT !.ok = FALSE]
MalloryWire ==
    [id |-> MalloryURI, url |-> "", username |-> "mallory", ok |-> TRUE,
     avatar |-> "", header |-> "", published |-> 0]
\* The object of alice with a publish time: after her row was first
\* stored, before any call of the model starts.
DatedWire == [AliceWire EXCEPT !.published = DefaultAccountFreshness + 1]

\* error values: kind "" is nil; code is gtserror.StatusCode (0: none).
NoErr == [kind |-> "", code |-> 0]
Err(k, c) == [kind |-> k, code |-> c]

\* gtserror.IsUnretrievable: set at the SetUnretrievable call sites.
IsUnretrievable(e) == e.kind \in {"noentries", "finger", "deref"}
\* gtserror.IsMalformed: set by ASRepresentationToAccount.
IsMalformed(e) == e.kind = "malformed"
\* errors.Is(err, db.ErrAlreadyExists)
IsAlreadyExists(e) == e.kind = "exists"
StatusCode(e) == e.code
\* gtserror.IsWrongType: set by ap.ResolveAccountable.
IsWrongType(e) == e.kind = "wrongtype"
\* What a caller can tell of an error: the marks gtserror keeps on it, its
\* status code, and the database sentinel it wraps. The text differs from
\* site to site, the marks do not.
ErrorMarks(e) ==
    [unretrievable |-> IsUnretrievable(e), malformed |-> IsMalformed(e),
     wrongType |-> IsWrongType(e), code |-> StatusCode(e),
     exists |-> IsAlreadyExists(e), noEntries |-> e.kind \in {"noentries", "afterrace"}]

\* Account.IsNew, IsLocal, IsSuspended, IsInstance of gtsmodel.
IsNew(a) == a.createdAt = 0
IsLocal(a) == a.domain \in {"", Host, AccountDomain}
IsSuspended(a) == a.suspended
IsInstance(a) == a.username # "" /\ a.username = a.domain

VARIABLES
    now,      \* time.Now()
    db,       \* the accounts table: a set of rows
    locks,    \* state.FedLocks: the keys held
    nextID,   \* id.NewULID(): the next fresh ID
    calls,    \* public calls started so far
    queued,   \* tasks enqueued on Workers.Federator so far
    blocked,  \* the domains under a domain block
    media,    \* derefAvatars, derefHeaders and the media manager
    statuses, \* the statuses table: a set of rows
    last,     \* the last call of accountFresh, fetchRemoteAccountEmojis or Update
    g,        \* the goroutines: g[c] is the frame of caller c
    fediAPI   \* the messages enqueued on the fedi API worker, oldest first

vars ==
    <<now, db, locks, nextID, calls, queued, blocked, media, statuses, last, g,
      fediAPI>>

(* ---------------------------- the database ---------------------------- *)

One(S) == IF S = {} THEN NilAcc ELSE CHOOSE r \in S : TRUE

\* DB.GetAccountByURI, GetAccountByURL, GetAccountByUsernameDomain.
DBGetAccountByURI(u) == One({r \in db : r.uri = u})
DBGetAccountByURL(u) == One({r \in db : r.url = u /\ u # ""})
DBGetAccountByUsernameDomain(n, d) ==
    One({r \in db : r.username = n /\ r.domain = d})

\* A nil *FreshnessWindow.
NilWindow == -1

\* if window == nil { window = DefaultAccountFreshness } (account.go:57-59).
WindowOr(window) == IF window = NilWindow THEN DefaultAccountFreshness ELSE window

\* A freshness check under which the account is stale from the last instant
\* of the window on.
accountFresh_StaleAtWindowEnd(a, window, t) ==
    IF IsLocal(a) THEN TRUE
    ELSE IF IsSuspended(a) THEN TRUE
    ELSE IF IsInstance(a) /\ ~IsNew(a) THEN TRUE
    ELSE ~(t >= a.fetchedAt + WindowOr(window))

\* A freshness check that has no case for local accounts.
accountFresh_NoLocalCase(a, window, t) ==
    IF IsSuspended(a) THEN TRUE
    ELSE IF IsInstance(a) /\ ~IsNew(a) THEN TRUE
    ELSE ~(t > a.fetchedAt + WindowOr(window))

\* A freshness check that has no case for instance accounts.
accountFresh_NoInstanceCase(a, window, t) ==
    IF IsLocal(a) THEN TRUE
    ELSE IF IsSuspended(a) THEN TRUE
    ELSE ~(t > a.fetchedAt + WindowOr(window))

\* accountFresh at instant t (account.go:53-90).
accountFresh(a, window, t) ==
    IF IsLocal(a) THEN TRUE
    ELSE IF IsSuspended(a) THEN TRUE
    ELSE IF IsInstance(a) /\ ~IsNew(a) THEN TRUE
    ELSE ~(t > a.fetchedAt + WindowOr(window))

(* --------------------------- the goroutines --------------------------- *)

\* What one public call did: remote calls, store writes, tasks enqueued.
NoStat == [deref |-> 0, finger |-> 0, put |-> 0, upd |-> 0, enq |-> 0]
\* What a call returned: (account, accountable, error).
NoRet == [acc |-> NilAcc, wire |-> NilWire, err |-> NoErr]

\* dereferenceAccountFeatured has not run: collect, the items of the
\* collection still to come; wasPinned, the rows read before the loop;
\* statusURIs; todo, the rows of wasPinned still to look at; and plain,
\* whether every item so far was on the host of the collection, could be
\* resolved, was owned by the account and no boost, and every update went
\* through. Beside them: untrusted, the items passed over for their host;
\* unresolved, the items getStatusByURI returned an error for; unwritten,
\* the statuses whose update failed; pending, the status the loop is about
\* to pin; after, whether the call runs alone, the second of two in a row
\* ("row"), the first having logged no error ("clean").
NoFeat ==
    [collect |-> <<>>, wasPinned |-> {}, statusURIs |-> {}, todo |-> {},
     plain |-> TRUE, untrusted |-> {}, unresolved |-> {}, unwritten |-> {},
     pending |-> "", after |-> ""]

\* pc: idle, lock, deref, media, persist, post, ret, items, unpin. op: the public operation.
\* path: "stub" (no row was found) or "existing". acc: the account passed
\* to enrichAccountSafely; cur, uri, wire, latest, err: enrichAccount's
\* account, uri, apubAcc, latestAcc and err; same: cur is still the
\* pointer that was passed in. given: the accountable the caller passed.
\* mk, ms, mh, mine: inside fetchRemoteAccountAvatar or -Header, which of
\* the two, where in it, the processing handle in use, and whether this
\* call put the handle in the map.
\* fingered: how the webfinger of the known username went ("ok", "failed",
\* or "" without one), until the dereference.
\* feat: the locals of dereferenceAccountFeatured.
\* ret, stat: the last finished call.
IdleFrame ==
    [pc |-> "idle", op |-> "", path |-> "", arg |-> "", key |-> "",
     given |-> NilWire, mk |-> "", ms |-> "", mh |-> 0, mine |-> FALSE,
     feat |-> NoFeat, fingered |-> "",
     acc |-> NilAcc, cur |-> NilAcc, same |-> TRUE, uri |-> "",
     wire |-> NilWire, latest |-> NilAcc, err |-> NoErr,
     ret |-> NoRet, stat |-> NoStat]

\* No function was called by itself.
NoCall == [fn |-> ""]

\* The callers are interchangeable: c2 makes its first call only after c1
\* made its first, which leaves out no behaviour up to renaming.
MayStart(c) ==
    /\ g[c].pc = "idle"
    /\ calls < MaxCalls
    /\ c = "c1" \/ g["c1"].op # ""

\* A call starts: the frame of the finished call is dropped.
NewFrame(op, arg) == [IdleFrame EXCEPT !.op = op, !.arg = arg]

\* The call is over: its result and counts are kept, and of its locals the
\* account it passed to enrichAccountSafely and the error enrichAccount
\* left with.
Finished(f, r) ==
    [IdleFrame EXCEPT !.op = f.op, !.path = f.path, !.arg = f.arg,
                      !.acc = f.acc, !.err = f.err,
                      !.ret = r, !.stat = f.stat]

\* The per-URI deref lock key (account.go:397-405).
LockKey(a) ==
    IF a.uri # "" THEN a.uri
    ELSE "https://" \o a.domain \o "/users/" \o a.username

\* An entry that goes for the lock whatever the account.
EnterEnrich_NoSuspendedCheck(f, path, uri, account, wire) ==
    [f EXCEPT !.pc = "lock", !.path = path, !.acc = account,
              !.cur = account, !.uri = uri, !.wire = wire,
              !.key = LockKey(account), !.given = wire]

\* Entry of enrichAccountSafely (account.go:384-405): a suspended account
\* is returned at once, any other waits for the lock.
EnterEnrich(f, path, uri, account, wire) ==
    IF IsSuspended(account)
    THEN [f EXCEPT !.pc = "ret", !.path = path, !.acc = account,
                   !.latest = account, !.given = wire]
    ELSE [f EXCEPT !.pc = "lock", !.path = path, !.acc = account,
                   !.cur = account, !.uri = uri, !.wire = wire,
                   !.key = LockKey(account), !.given = wire]

\* The maps of dereferences in progress, empty, and a media manager that
\* has made no processing handle and stored no attachment. An entry of a
\* map is a [url, h]; a handle is an [id, kind, url, state], its state
\* "pending" until LoadAttachment has run, then "ok" or "failed"; an
\* attachment is an [id, url].
NoMedia ==
    [derefAvatars |-> {}, derefHeaders |-> {}, handles |-> {},
     attachments |-> {}, nextHandle |-> 1]

\* The row of alice as an earlier successful dereference stored it.
StoredAlice ==
    [NilAcc EXCEPT !.id = 1, !.uri = AliceURI, !.url = AliceURL,
                   !.username = "alice", !.domain = "ex.org",
                   !.fetchedAt = 1, !.createdAt = 1, !.language = "en"]

\* The row of alice after an administrator suspended her account.
SuspendedAlice == [StoredAlice EXCEPT !.suspended = TRUE]

\* The row of alice as it was stored before she moved: under her old URI
\* and the domain of her host.
MovedAlice == [StoredAlice EXCEPT !.uri = AliasURI, !.domain = "s.ex.org"]

\* The row of the local account admin: no domain, never fetched.
StoredAdmin ==
    [NilAcc EXCEPT !.id = 1, !.uri = AdminURI, !.url = "https://gts.local/@admin",
                   !.username = "admin", !.createdAt = 1]

\* No call is running; alice is unknown, or stored and stale.
Init ==
    /\ fediAPI = <<>>
    /\ now = StartTime
    /\ db \in {{}, {StoredAlice}}
    /\ locks = {}
    /\ nextID = 2
    /\ calls = 0
    /\ queued = 0
    /\ blocked \in {{}, {"s.ex.org"}}
    /\ media = NoMedia
    /\ g = [c \in Callers |-> IdleFrame]
    /\ statuses = {}
    /\ last = NoCall

\* No call is running; the table holds the row of alice suspended, or the
\* row of a local account.
InitRows ==
    /\ fediAPI = <<>>
    /\ now = StartTime
    /\ db \in {{SuspendedAlice}, {StoredAdmin}}
    /\ locks = {}
    /\ nextID = 2
    /\ calls = 0
    /\ queued = 0
    /\ blocked = {}
    /\ media = NoMedia
    /\ g = [c \in Callers |-> IdleFrame]
    /\ statuses = {}
    /\ last = NoCall

\* No call is running; the table holds the row of alice from before she
\* moved.
InitMoved ==
    /\ fediAPI = <<>>
    /\ now = StartTime
    /\ db = {MovedAlice}
    /\ locks = {}
    /\ nextID = 2
    /\ calls = 0
    /\ queued = 0
    /\ blocked = {}
    /\ media = NoMedia
    /\ g = [c \in Callers |-> IdleFrame]
    /\ statuses = {}
    /\ last = NoCall

\* Time passes.
Tick ==
    /\ now < MaxTime
    /\ now' = now + 1
    /\ UNCHANGED <<db, locks, nextID, calls, queued, blocked, statuses, last, media, g, fediAPI>>

\* getAccountByURI up to the call of enrichAccountSafely (account.go:118-177).
StartGetAccountByURI(c, u) ==
    /\ MayStart(c)
    /\ calls' = calls + 1
    /\ LET byURI == DBGetAccountByURI(u)
           account == IF byURI # NilAcc THEN byURI ELSE DBGetAccountByURL(u)
           f == NewFrame("GetAccountByURI", u)
           stub == [NilAcc EXCEPT !.id = nextID, !.domain = HostOf(u), !.uri = u]
       IN  IF account = NilAcc
           THEN IF HostOf(u) = Host \/ HostOf(u) = AccountDomain
                THEN /\ g' = [g EXCEPT ![c] = Finished(f,
                                [NoRet EXCEPT !.err = Err("noentries", 0)])]
                     /\ UNCHANGED nextID
                ELSE /\ g' = [g EXCEPT ![c] = EnterEnrich(f, "stub", u, stub, NilWire)]
                     /\ nextID' = nextID + 1
           ELSE /\ UNCHANGED nextID
                /\ IF accountFresh(account, DefaultAccountFreshness, now)
                   THEN g' = [g EXCEPT ![c] = Finished(f, [NoRet EXCEPT !.acc = account])]
                   ELSE g' = [g EXCEPT ![c] = EnterEnrich(f, "existing", u, account, NilWire)]
    /\ UNCHANGED <<now, db, locks, queued, blocked, statuses, last, media, fediAPI>>

\* What fingerRemoteAccount(username, domain) may answer: the account
\* domain and URI of the handle, or a failure with or without a status.
FingerOutcomes(username, domain) ==
    {[ok |-> FALSE, domain |-> "", uri |-> "", code |-> 0],
     [ok |-> FALSE, domain |-> "", uri |-> "", code |-> 404]}
    \cup (IF username = "alice" /\ domain \in {"ex.org", "s.ex.org"}
          THEN {[ok |-> TRUE, domain |-> "ex.org", uri |-> AliceURI, code |-> 0]}
          ELSE {})
    \cup (IF username = "mallory" /\ domain \in {"ex.org", "s.ex.org"}
          THEN {[ok |-> TRUE, domain |-> "ex.org", uri |-> MalloryURI, code |-> 0]}
          ELSE {})
    \cup (IF username = "alice" /\ domain = "old.org"
          THEN {[ok |-> TRUE, domain |-> "ex.org", uri |-> AliasURI, code |-> 0]}
          ELSE {})

\* What tsport.Dereference(uri) followed by ap.ResolveAccountable may
\* give: a transport failure without a status, an HTTP error status, a body
\* that is no account, or a wire object with the final URI after redirects.
DerefOutcomes(u) ==
    {[kind |-> "neterr", wire |-> NilWire, final |-> ""],
     [kind |-> "http", wire |-> NilWire, final |-> ""],
     [kind |-> "wrongtype", wire |-> NilWire, final |-> u]}
    \cup {[kind |-> "ok", wire |-> w,
           final |-> IF u = AliasURI THEN AliceURI ELSE u] :
            w \in {AliceWire, DatedWire, BadWire, MalloryWire}}

\* converter.ASRepresentationToAccount(apubAcc, accountDomain): CreatedAt
\* is the publish time of the object, zero when it has none; Language is
\* not read from the object.
ASRepresentationToAccount(w, accountDomain) ==
    [NilAcc EXCEPT !.uri = w.id, !.url = w.url, !.username = w.username,
                   !.domain = IF accountDomain # "" THEN accountDomain
                              ELSE HostOf(w.id),
                   !.avatarURL = w.avatar, !.headerURL = w.header,
                   !.createdAt = w.published]

\* enrichAccount leaves with an error (the lock is still held).
Fail(f, e) == [f EXCEPT !.pc = "post", !.err = e, !.latest = NilAcc, !.wire = NilWire]

\* A lock map that hands the key to every goroutine that asks.
CanLock_NoWait(key) == TRUE

\* FedLocks.Lock(key) returns once no other goroutine holds the key.
CanLock(key) == key \notin locks

\* No lookup under the domain the webfinger gave.
AfterFinger_NoLookup(username, domain, accDomain) == NilAcc

\* case err == nil && account.Domain != accDomain (account.go:499-510): the
\* row stored under the username and the domain the webfinger gave; NilAcc
\* when the domain is the recorded one, or no row is.
AfterFinger(username, domain, accDomain) ==
    IF domain # accDomain THEN DBGetAccountByUsernameDomain(username, accDomain)
    ELSE NilAcc

\* A webfinger failure that ends the enrichment whatever the account.
FingerFatal_Always(account) == TRUE

\* case err != nil && account.URI == "" (account.go:486): the webfinger
\* failed for an account that has no URI yet.
FingerFatal(account) == account.uri = ""

\* An enrichment that goes on with the account it has, whatever was found.
Proceed_Regardless(account, alreadyAcc) == account

\* "Proceed with this account" (account.go:506-512 and 604-610): the row
\* found by the lookup, if any, takes the place of the account.
Proceed(account, alreadyAcc) == IF alreadyAcc # NilAcc THEN alreadyAcc ELSE account

\* FedLocks.Lock, then enrichAccount up to the domain block check
\* (account.go:407-561): the webfinger of a known username, the lookup of
\* the row stored under the domain it reveals, the URI to dereference.
LockAndFinger(c) ==
    LET f == g[c] IN
    /\ f.pc = "lock"
    /\ CanLock(f.key)
    /\ locks' = locks \cup {f.key}
    /\ \E o \in (IF f.cur.username # ""
                 THEN FingerOutcomes(f.cur.username, f.cur.domain)
                 ELSE {[ok |-> FALSE, domain |-> "", uri |-> "", code |-> 0]}) :
         LET fingered == f.cur.username # ""
             st == IF fingered
                   THEN [f.stat EXCEPT !.finger = @ + 1] ELSE f.stat
             already == IF fingered /\ o.ok
                        THEN AfterFinger(f.cur.username, f.cur.domain, o.domain)
                        ELSE NilAcc
             base == Proceed(f.cur, already)
             same == f.same /\ already = NilAcc
             cur == IF fingered /\ o.ok
                    THEN [base EXCEPT !.uri = o.uri, !.domain = o.domain]
                    ELSE f.cur
             uri == IF fingered /\ o.ok THEN o.uri
                    ELSE IF f.uri = "" THEN f.cur.uri ELSE f.uri
             f1 == [f EXCEPT !.stat = st, !.cur = cur, !.same = same,
                             !.acc = IF same THEN cur ELSE f.acc,
                             !.uri = uri,
                             !.fingered = IF ~fingered THEN ""
                                          ELSE IF o.ok THEN "ok" ELSE "failed"]
         IN  g' = [g EXCEPT ![c] =
                 IF fingered /\ ~o.ok /\ FingerFatal(f.cur)
                 THEN Fail(f1, Err("finger", o.code))
                 ELSE IF uri = ""
                 THEN Fail(f1, Err("baduri", 0))
                 ELSE IF HostOf(uri) \in blocked
                 THEN Fail(f1, Err("blocked", 0))
                 ELSE [f1 EXCEPT !.pc = "deref"]]
    /\ UNCHANGED <<now, db, nextID, calls, queued, blocked, statuses, last, media, fediAPI>>

\* The ID of the account that was passed in, whatever row the enrichment
\* went on with.
CarriedID_OfPassed(passed, account) == passed.id

\* The ID given to the converted account (account.go:703): that of the
\* account the enrichment is based on by then, which is the one passed in
\* or a row rediscovered since.
CarriedID(passed, account) == account.id

\* A check that lets every converted account through.
URIMatches_Always(latestAcc, expect) == TRUE

\* The converted account is the one that was fetched (account.go:684-685):
\* its URI or its URL is the URI it was fetched or received as.
URIMatches(latestAcc, expect) == latestAcc.uri = expect \/ latestAcc.url = expect

\* The checks on the converted account (account.go:641-704): the webfinger
\* of an account passed without username, the domain, the URI, then the ID
\* and the fetch time. w is the wire object, expect the URI it came from.
Checked(f, w, expect, cur, same, st, o2, t) ==
    LET conv == ASRepresentationToAccount(w, cur.domain)
        refinger == cur.username = ""
        latestAcc == IF refinger THEN [conv EXCEPT !.domain = o2.domain] ELSE conv
        f1 == [f EXCEPT !.cur = cur, !.same = same, !.uri = expect,
                        !.stat = IF refinger /\ w.ok
                                 THEN [st EXCEPT !.finger = @ + 1] ELSE st]
    IN  IF ~w.ok THEN Fail(f1, Err("malformed", 0))
        ELSE IF refinger /\ ~o2.ok THEN Fail(f1, Err("finger2", o2.code))
        ELSE IF latestAcc.domain = "" THEN Fail(f1, Err("nodomain", 0))
        ELSE IF ~URIMatches(latestAcc, expect)
        THEN Fail(f1, Err("mismatch", 0))
        ELSE IF latestAcc.avatarURL = "" /\ latestAcc.headerURL = ""
        THEN [f1 EXCEPT !.pc = "persist", !.wire = w,
                        !.latest = [latestAcc EXCEPT !.id = CarriedID(f.acc, cur),
                                                     !.fetchedAt = t]]
        ELSE [f1 EXCEPT !.pc = "media", !.mk = "avatar", !.ms = "lock", !.wire = w,
                        !.latest = [latestAcc EXCEPT !.id = CarriedID(f.acc, cur),
                                                     !.fetchedAt = t]]

\* No lookup under the final URI.
AfterRedirects_NoLookup(final, uri) == NilAcc

\* The row stored under the final URI when the dereference was redirected
\* (account.go:590-610); NilAcc when it was not, or no row is.
AfterRedirects(final, uri) ==
    IF final # uri THEN DBGetAccountByURI(final) ELSE NilAcc

\* enrichAccount from the dereference to the stamping of FetchedAt
\* (account.go:563-704).
Deref(c) ==
    LET f == [g[c] EXCEPT !.fingered = ""] IN
    /\ f.pc = "deref"
    /\ IF f.wire # NilWire
       THEN \E o2 \in FingerOutcomes(f.wire.username, HostOf(f.wire.id)) :
              g' = [g EXCEPT ![c] =
                      Checked(f, f.wire, f.uri, f.cur, f.same, f.stat, o2, now)]
       ELSE \E o \in DerefOutcomes(f.uri) :
              LET st == [f.stat EXCEPT !.deref = @ + 1] IN
              CASE o.kind = "neterr" ->
                     g' = [g EXCEPT ![c] = Fail([f EXCEPT !.stat = st], Err("deref", 0))]
                [] o.kind = "http" ->
                     g' = [g EXCEPT ![c] = Fail([f EXCEPT !.stat = st], Err("deref", 404))]
                [] o.kind = "wrongtype" ->
                     g' = [g EXCEPT ![c] = Fail([f EXCEPT !.stat = st], Err("wrongtype", 0))]
                [] OTHER ->
                     LET already == AfterRedirects(o.final, f.uri)
                         cur == Proceed(f.cur, already)
                         same == f.same /\ already = NilAcc
                     IN  \E o2 \in FingerOutcomes(o.wire.username, HostOf(o.wire.id)) :
                           g' = [g EXCEPT ![c] =
                                   Checked(f, o.wire, o.final, cur, same, st, o2, now)]
    /\ UNCHANGED <<now, db, locks, nextID, calls, queued, blocked, statuses, last, media, fediAPI>>

\* DB.PutAccount refuses a row whose ID, URI or username@domain is taken.
PutConflict(row) ==
    \E r \in db : \/ r.id = row.id
                  \/ r.uri = row.uri
                  \/ (r.username = row.username /\ r.domain = row.domain)

\* DB.UpdateAccount refuses a row whose URI or username@domain is taken by
\* another row.
UpdateConflict(row) ==
    \E r \in db : /\ r.id # row.id
                  /\ \/ r.uri = row.uri
                     \/ (r.username = row.username /\ r.domain = row.domain)

\* DB.UpdateAccount(account): every column of the row with that ID.
DBUpdateAccount(row) ==
    IF \E r \in db : r.id = row.id
    THEN {r \in db : r.id # row.id} \cup {row}
    ELSE db

\* DB.UpdateAccount(account, "fetched_at"): that column only.
DBUpdateFetchedAt(account) ==
    {IF r.id = account.id THEN [r EXCEPT !.fetchedAt = account.fetchedAt] ELSE r :
       r \in db}

\* The account as it is written (account.go:721-748): CreatedAt is the
\* publish time if the remote gave one, else the fetch time of a new
\* account and the stored time of an existing one, which also keeps its
\* language.
Carried(latestAcc, account) ==
    [latestAcc EXCEPT !.createdAt =
                        IF @ # 0 THEN @
                        ELSE IF IsNew(account) THEN latestAcc.fetchedAt
                        ELSE account.createdAt,
                      !.language =
                        IF IsNew(account) THEN @ ELSE account.language]

\* enrichAccount from the media fetches to its return (account.go:706-755):
\* a new account is inserted, a stored one updated.
Persist(c) ==
    LET f == g[c]
        latestAcc == Carried(f.latest, f.cur)
    IN
    /\ f.pc = "persist"
    /\ IF IsNew(f.cur)
       THEN IF PutConflict(latestAcc)
            THEN /\ g' = [g EXCEPT ![c] =
                        Fail([f EXCEPT !.stat.put = @ + 1], Err("exists", 0))]
                 /\ UNCHANGED db
            ELSE /\ db' = db \cup {latestAcc}
                 /\ g' = [g EXCEPT ![c] = [f EXCEPT !.pc = "post", !.stat.put = @ + 1,
                                                    !.latest = latestAcc]]
       ELSE IF UpdateConflict(latestAcc)
            THEN /\ g' = [g EXCEPT ![c] =
                        Fail([f EXCEPT !.stat.upd = @ + 1], Err("exists", 0))]
                 /\ UNCHANGED db
            ELSE /\ db' = DBUpdateAccount(latestAcc)
                 /\ g' = [g EXCEPT ![c] = [f EXCEPT !.pc = "post", !.stat.upd = @ + 1,
                                                    !.latest = latestAcc]]
    /\ UNCHANGED <<now, locks, nextID, calls, queued, blocked, statuses, last, media, fediAPI>>

\* The branch taken for server errors only.
FailedAttempt_ServerErrorsOnly(e) == StatusCode(e) >= 500

\* Whether enrichAccountSafely takes the branch that handles a failed
\* attempt (account.go:422).
FailedAttempt(e) == StatusCode(e) >= 400

\* enrichAccountSafely after enrichAccount returned, up to the unlock
\* (account.go:422-445): the fetch time of a stored account is pushed
\* forward after a failed attempt.
Post(c) ==
    LET f == g[c]
        backoff == FailedAttempt(f.err) /\ ~IsNew(f.acc)
        account == IF backoff THEN [f.acc EXCEPT !.fetchedAt = now] ELSE f.acc
    IN
    /\ f.pc = "post"
    /\ db' = IF backoff THEN DBUpdateFetchedAt(account) ELSE db
    /\ locks' = locks \ {f.key}
    /\ g' = [g EXCEPT ![c] = [f EXCEPT !.pc = "ret", !.acc = account, !.key = "",
                                       !.stat.upd = IF backoff THEN @ + 1 ELSE @]]
    /\ UNCHANGED <<now, nextID, calls, queued, blocked, statuses, last, media, fediAPI>>

\* What enrichAccountSafely returns (account.go:447-461): after a lost
\* insert race the row stored under the account's URI, without wire object.
EnrichResult(f) ==
    IF IsAlreadyExists(f.err)
    THEN LET row == DBGetAccountByURI(f.acc.uri) IN
         IF row = NilAcc
         THEN [acc |-> NilAcc, wire |-> NilWire, err |-> Err("afterrace", 0)]
         ELSE [acc |-> row, wire |-> NilWire, err |-> NoErr]
    ELSE [acc |-> f.latest, wire |-> f.wire, err |-> f.err]

\* A caller without fallback: the error goes up.
Fallback_ReturnError(f, r) == [acc |-> NilAcc, wire |-> NilWire, err |-> r.err]

\* What the caller of enrichAccountSafely makes of the result: the number
\* of featured-collection fetches it enqueues, and what it returns.
\* getAccountByURI falls back to the account it passed (account.go:171-185).
Fallback(f, r) == [acc |-> f.acc, wire |-> NilWire, err |-> NoErr]

\* A caller that enqueues after every call that returned no error.
Enqueues_WheneverNoError(op, path, r) ==
    IF r.err # NoErr THEN 0
    ELSE IF op = "RefreshAccountAsync" THEN 0
    ELSE 1

Enqueues(op, path, r) ==
    IF r.err # NoErr \/ r.wire = NilWire THEN 0
    ELSE IF op = "RefreshAccountAsync" THEN 0
    ELSE IF op = "GetAccountByUsernameDomain" /\ path = "existing" THEN 2
    ELSE 1

\* Every caller falls back to the account it passed.
Returned_AlwaysFallback(f, r) ==
    IF r.err = NoErr THEN r ELSE [acc |-> f.acc, wire |-> NilWire, err |-> NoErr]

\* The error is reported anew instead of wrapped: its kind is lost.
Returned_Unwrapped(f, r) ==
    IF r.err = NoErr THEN r
    ELSE IF f.op \in {"GetAccountByURI", "GetAccountByUsernameDomain"}
            /\ f.path = "existing"
    THEN [acc |-> f.acc, wire |-> NilWire, err |-> NoErr]
    ELSE [acc |-> NilAcc, wire |-> NilWire, err |-> Err("enrich", StatusCode(r.err))]

Returned(f, r) ==
    IF r.err = NoErr THEN r
    ELSE IF f.op \in {"GetAccountByURI", "GetAccountByUsernameDomain"}
            /\ f.path = "existing"
    THEN Fallback(f, r)
    ELSE [acc |-> NilAcc, wire |-> NilWire, err |-> r.err]

\* The return of enrichAccountSafely and of the public operation around it
\* (account.go:95-115, 171-185, 191-212, 251-277, 318-332, 366-377).
Return(c) ==
    LET f == g[c]
        r == EnrichResult(f)
        n == Enqueues(f.op, f.path, r)
    IN
    /\ f.pc = "ret"
    /\ queued' = queued + n
    /\ g' = [g EXCEPT ![c] = Finished([f EXCEPT !.stat.enq = @ + n], Returned(f, r))]
    /\ UNCHANGED <<now, db, locks, nextID, calls, blocked, statuses, last, media, fediAPI>>

\* getAccountByUsernameDomain up to the call of enrichAccountSafely
\* (account.go:216-264), through RefreshAccount for a stored account
\* (account.go:291-317).
StartGetAccountByUsernameDomain(c, username, dom) ==
    /\ MayStart(c)
    /\ calls' = calls + 1
    /\ LET domain == IF dom = Host \/ dom = AccountDomain THEN "" ELSE dom
           account == DBGetAccountByUsernameDomain(username, domain)
           f == NewFrame("GetAccountByUsernameDomain", dom)
           stub == [NilAcc EXCEPT !.id = nextID, !.domain = domain,
                                  !.username = username]
       IN  IF account = NilAcc
           THEN IF domain = ""
                THEN /\ g' = [g EXCEPT ![c] = Finished(f,
                                [NoRet EXCEPT !.err = Err("noentries", 0)])]
                     /\ UNCHANGED nextID
                ELSE /\ g' = [g EXCEPT ![c] = EnterEnrich(f, "stub", "", stub, NilWire)]
                     /\ nextID' = nextID + 1
           ELSE /\ UNCHANGED nextID
                /\ IF accountFresh(account, DefaultAccountFreshness, now)
                   THEN g' = [g EXCEPT ![c] = Finished(f, [NoRet EXCEPT !.acc = account])]
                   ELSE g' = [g EXCEPT ![c] =
                                EnterEnrich(f, "existing", account.uri, account, NilWire)]
    /\ UNCHANGED <<now, db, locks, queued, blocked, statuses, last, media, fediAPI>>

\* RefreshAccount up to the call of enrichAccountSafely (account.go:291-317),
\* for a row the caller read from the database, with or without a wire
\* object received from the remote.
StartRefreshAccount(c, account, accountable) ==
    /\ MayStart(c)
    /\ calls' = calls + 1
    /\ account \in db
    /\ LET f == [NewFrame("RefreshAccount", account.uri) EXCEPT !.path = "refresh",
                                                                !.acc = account] IN
       IF accountable = NilWire /\ accountFresh(account, DefaultAccountFreshness, now)
       THEN g' = [g EXCEPT ![c] = Finished(f, [NoRet EXCEPT !.acc = account])]
       ELSE g' = [g EXCEPT ![c] =
                    EnterEnrich(f, "refresh", account.uri, account, accountable)]
    /\ UNCHANGED <<now, db, locks, nextID, queued, blocked, statuses, last, media, fediAPI>>

\* A variant that enqueues first and leaves the freshness check to the
\* worker.
StartRefreshAccountAsync_EnqueueFirst(c, account, accountable) ==
    /\ MayStart(c)
    /\ calls' = calls + 1
    /\ account \in db
    /\ queued' = queued + 1
    /\ LET f == [NewFrame("RefreshAccountAsync", account.uri) EXCEPT
                    !.path = "refresh", !.acc = account, !.stat.enq = 1] IN
       IF accountable = NilWire /\ accountFresh(account, DefaultAccountFreshness, now)
       THEN g' = [g EXCEPT ![c] = Finished(f, NoRet)]
       ELSE g' = [g EXCEPT ![c] =
                    EnterEnrich(f, "refresh", account.uri, account, accountable)]
    /\ UNCHANGED <<now, db, locks, nextID, blocked, statuses, last, media, fediAPI>>

\* RefreshAccountAsync (account.go:343-379): the freshness check, then the
\* enqueued function, which the worker runs as this frame.
StartRefreshAccountAsync(c, account, accountable) ==
    /\ MayStart(c)
    /\ calls' = calls + 1
    /\ account \in db
    /\ LET f == [NewFrame("RefreshAccountAsync", account.uri) EXCEPT !.path = "refresh",
                                                                     !.acc = account] IN
       IF accountable = NilWire /\ accountFresh(account, DefaultAccountFreshness, now)
       THEN /\ g' = [g EXCEPT ![c] = Finished(f, NoRet)]
            /\ UNCHANGED queued
       ELSE /\ g' = [g EXCEPT ![c] =
                    EnterEnrich([f EXCEPT !.stat.enq = 1], "refresh",
                                account.uri, account, accountable)]
            /\ queued' = queued + 1
    /\ UNCHANGED <<now, db, locks, nextID, blocked, statuses, last, media, fediAPI>>

\* The wire objects a caller may pass to RefreshAccount: none, or one
\* delivered by the remote.
GivenWires == {NilWire, AliceWire, BadWire}

(* ----------------------- avatar and header media ----------------------- *)

\* The media URLs the remote names: a picture, a banner, and, to mislead,
\* the URI of the account itself.
AvatarURL == "https://s.ex.org/media/alice.png"
HeaderURL == "https://s.ex.org/media/banner.png"
MediaURLs == {AvatarURL, HeaderURL, AliceURI}

\* The remote URL and the attachment ID of account a for media kind k.
RemoteURLOf(a, k) == IF k = "avatar" THEN a.avatarURL ELSE a.headerURL
AttachmentIDOf(a, k) == IF k = "avatar" THEN a.avatarID ELSE a.headerID
WithAttachmentID(a, k, id) ==
    IF k = "avatar" THEN [a EXCEPT !.avatarID = id] ELSE [a EXCEPT !.headerID = id]

\* d.derefAvatars or d.derefHeaders.
DerefMap(k) == IF k = "avatar" THEN media.derefAvatars ELSE media.derefHeaders
WithDerefMap(m, k, entries) ==
    IF k = "avatar" THEN [m EXCEPT !.derefAvatars = entries]
    ELSE [m EXCEPT !.derefHeaders = entries]

\* A map in which no dereference is ever found in progress.
Processing_NeverFound(entries, url) == {}

\* processing, ok := d.derefAvatars[url] (account.go:805): the entries of
\* the map under the URL, none when !ok.
Processing(entries, url) == {e \in entries : e.url = url}

\* fetchRemoteAccountAvatar or -Header is left: the header follows the
\* avatar, the store follows the header (account.go:706-714).
LeaveMedia(f) ==
    IF f.mk = "avatar"
    THEN [f EXCEPT !.mk = "header", !.ms = "lock", !.mh = 0, !.mine = FALSE]
    ELSE [f EXCEPT !.pc = "persist", !.mk = "", !.ms = "", !.mh = 0, !.mine = FALSE]

\* A check that trusts the attachment ID and the URL of the row, without
\* looking the attachment up.
KeepsAttachment_ByURLAlone(existing, latestAcc, k) ==
    /\ AttachmentIDOf(latestAcc, k) # 0
    /\ RemoteURLOf(existing, k) = RemoteURLOf(latestAcc, k)

\* The stored attachment of the account is still the one the remote names
\* (account.go:774-789).
KeepsAttachment(existing, latestAcc, k) ==
    /\ AttachmentIDOf(latestAcc, k) # 0
    /\ RemoteURLOf(existing, k) = RemoteURLOf(latestAcc, k)
    /\ \E att \in media.attachments :
         att.id = AttachmentIDOf(existing, k) /\ att.url = RemoteURLOf(latestAcc, k)

\* fetchRemoteAccountAvatar or -Header up to the unlock of the map
\* (account.go:758-831): nothing to do without a remote URL or
\* with the attachment already stored; else, under the lock of the URL, the
\* processing handle in the map is taken, or a new one made and put there.
MediaLock(c) ==
    LET f == g[c]
        k == f.mk
        url == RemoteURLOf(f.latest, k)
        latestAcc == WithAttachmentID(f.latest, k, AttachmentIDOf(f.cur, k))
        found == Processing(DerefMap(k), url)
        h == media.nextHandle
    IN
    /\ f.pc = "media" /\ f.ms = "lock"
    /\ IF url = ""
       THEN /\ g' = [g EXCEPT ![c] = LeaveMedia(f)]
            /\ UNCHANGED media
       ELSE IF KeepsAttachment(f.cur, latestAcc, k)
       THEN /\ g' = [g EXCEPT ![c] = LeaveMedia([f EXCEPT !.latest = latestAcc])]
            /\ UNCHANGED media
       ELSE /\ CanLock(url)
            /\ IF found # {}
               THEN /\ g' = [g EXCEPT ![c] =
                           [f EXCEPT !.latest = latestAcc, !.ms = "load",
                                     !.mh = (CHOOSE e \in found : TRUE).h]]
                    /\ UNCHANGED media
               ELSE /\ g' = [g EXCEPT ![c] =
                           [f EXCEPT !.latest = latestAcc, !.ms = "load",
                                     !.mh = h, !.mine = TRUE]]
                    /\ media' = [WithDerefMap(media, k,
                                    {e \in DerefMap(k) : e.url # url}
                                        \cup {[url |-> url, h |-> h]})
                                  EXCEPT !.handles = @ \cup
                                            {[id |-> h, kind |-> k, url |-> url,
                                              state |-> "pending"]},
                                         !.nextHandle = h + 1]
    /\ UNCHANGED <<now, db, locks, nextID, calls, queued, blocked, statuses, last, fediAPI>>

\* processing.LoadAttachment (account.go:833-839): the first call
\* on a handle downloads and stores the media, or fails; every call on it
\* returns that outcome, and on success the attachment ID is taken over.
MediaLoad(c) ==
    LET f == g[c]
        handle == CHOOSE x \in media.handles : x.id = f.mh
    IN
    /\ f.pc = "media" /\ f.ms = "load"
    /\ \E outcome \in (IF handle.state = "pending" THEN {"ok", "failed"}
                        ELSE {handle.state}) :
         /\ media' = [media EXCEPT
                !.handles = (@ \ {handle}) \cup {[handle EXCEPT !.state = outcome]},
                !.attachments = IF handle.state = "pending" /\ outcome = "ok"
                                THEN @ \cup {[id |-> handle.id, url |-> handle.url]}
                                ELSE @]
         /\ g' = [g EXCEPT ![c] =
                 [f EXCEPT !.ms = "exit",
                           !.latest = IF outcome = "ok"
                                      THEN WithAttachmentID(@, f.mk, handle.id)
                                      ELSE @]]
    /\ UNCHANGED <<now, db, locks, nextID, calls, queued, blocked, statuses, last, fediAPI>>

\* The deferred calls of fetchRemoteAccountAvatar or -Header (account.go:
\* 822-827): the call that put the handle in the map takes the
\* lock of the URL again and deletes the entry.
MediaExit(c) ==
    LET f == g[c]
        url == RemoteURLOf(f.latest, f.mk)
    IN
    /\ f.pc = "media" /\ f.ms = "exit"
    /\ IF f.mine
       THEN /\ CanLock(url)
            /\ media' = WithDerefMap(media, f.mk, {e \in DerefMap(f.mk) : e.url # url})
       ELSE UNCHANGED media
    /\ g' = [g EXCEPT ![c] = LeaveMedia(f)]
    /\ UNCHANGED <<now, db, locks, nextID, calls, queued, blocked, statuses, last, fediAPI>>

\* The row of bob as an earlier dereference stored it.
StoredBob ==
    [StoredAlice EXCEPT !.id = 2, !.uri = BobURI, !.url = "https://s.ex.org/@bob",
                        !.username = "bob"]

\* An attachment stored by an earlier dereference of bob's picture, and
\* the row of bob that names it.
OldAttachment == [id |-> 9, url |-> AvatarURL]
PicturedBob ==
    [StoredBob EXCEPT !.avatarURL = AvatarURL, !.avatarID = OldAttachment.id]

\* The wire objects of alice and bob that name media: both may use the
\* same picture, and alice may name her own URI as her picture.
MediaWires ==
    {[AliceWire EXCEPT !.avatar = a, !.header = h] :
        a \in {AvatarURL, AliceURI}, h \in {"", HeaderURL}}
    \cup {[id |-> BobURI, url |-> "https://s.ex.org/@bob", username |-> "bob",
           ok |-> TRUE, avatar |-> AvatarURL, header |-> h, published |-> 0] :
            h \in {"", HeaderURL}}

\* No call is running; alice and bob are stored and stale, alice without
\* media, bob without or with a picture, whose attachment is still stored
\* or was pruned since.
InitMedia ==
    /\ fediAPI = <<>>
    /\ now = StartTime
    /\ \/ db = {StoredAlice, StoredBob} /\ media = NoMedia
       \/ /\ db = {StoredAlice, PicturedBob}
          /\ media \in {NoMedia, [NoMedia EXCEPT !.attachments = {OldAttachment}]}
    /\ locks = {}
    /\ nextID = 3
    /\ calls = 0
    /\ queued = 0
    /\ blocked = {}
    /\ g = [c \in Callers |-> IdleFrame]
    /\ statuses = {}
    /\ last = NoCall

\* The steps of caller c inside a call.
Step(c) ==
    \/ LockAndFinger(c)
    \/ Deref(c)
    \/ MediaLock(c)
    \/ MediaLoad(c)
    \/ MediaExit(c)
    \/ Persist(c)
    \/ Post(c)
    \/ Return(c)

\* Callers of RefreshAccount that pass the wire object of the account,
\* naming media.
NextMedia ==
    \/ \E c \in Callers, a \in db :
         \E w \in {x \in MediaWires : x.id = a.uri} : StartRefreshAccount(c, a, w)
    \/ \E c \in Callers : Step(c)

\* Refreshes with media: every goroutine that can take a step takes one in
\* the end, and every network call returns.
SpecMedia ==
    InitMedia /\ [][NextMedia]_vars /\ \A c \in Callers : WF_vars(Step(c))

\* The URIs callers look up: those of the remote account, one of this
\* instance that names no account, and those of the stored rows.
LookupURIs == RemoteURIs \cup {LocalURI} \cup {r.uri : r \in db}

Next ==
    \/ Tick
    \/ \E c \in Callers, u \in LookupURIs : StartGetAccountByURI(c, u)
    \/ \E c \in Callers, d \in LookupDomains \cup {Host} :
         StartGetAccountByUsernameDomain(c, "alice", d)
    \/ \E c \in Callers, a \in db, w \in GivenWires : StartRefreshAccount(c, a, w)
    \/ \E c \in Callers, a \in db, w \in GivenWires : StartRefreshAccountAsync(c, a, w)
    \/ \E c \in Callers : LockAndFinger(c)
    \/ \E c \in Callers : Deref(c)
    \/ \E c \in Callers : Persist(c)
    \/ \E c \in Callers : Post(c)
    \/ \E c \in Callers : Return(c)

Spec == Init /\ [][Next]_vars

\* The same program over a table with a suspended or a local row.
SpecRows == InitRows /\ [][Next]_vars

\* The lookups alone, without callers of RefreshAccount.
NextLookups ==
    \/ Tick
    \/ \E c \in Callers, u \in LookupURIs : StartGetAccountByURI(c, u)
    \/ \E c \in Callers, d \in LookupDomains :
         StartGetAccountByUsernameDomain(c, "alice", d)
    \/ \E c \in Callers : LockAndFinger(c)
    \/ \E c \in Callers : Deref(c)
    \/ \E c \in Callers : Persist(c)
    \/ \E c \in Callers : Post(c)
    \/ \E c \in Callers : Return(c)

\* The lookups over a table with the row of an account that moved.
SpecMoved == InitMoved /\ [][NextLookups]_vars

\* Two rows of alice from before her handle and her URI were known to be
\* one account: the row of the handle alice@ex.org, stored under her old
\* URI, and the row stored under her URI with the domain of her host.
HandleRow ==
    [StoredAlice EXCEPT !.uri = AliasURI, !.url = "https://old.org/@alice"]
URIRow == [StoredAlice EXCEPT !.id = 2, !.domain = "s.ex.org"]

\* No call is running; the table holds one of the two rows, or both.
InitTwoRows ==
    /\ fediAPI = <<>>
    /\ now = StartTime
    /\ db \in {{HandleRow, URIRow}, {HandleRow}, {URIRow}}
    /\ locks = {}
    /\ nextID = 3
    /\ calls = 0
    /\ queued = 0
    /\ blocked = {}
    /\ media = NoMedia
    /\ g = [c \in Callers |-> IdleFrame]
    /\ statuses = {}
    /\ last = NoCall

\* Lookups of alice by name, under her old domain and her present ones.
NextTwoRows ==
    \/ \E c \in Callers, d \in LookupDomains \cup {"old.org"} :
         StartGetAccountByUsernameDomain(c, "alice", d)
    \/ \E c \in Callers : LockAndFinger(c)
    \/ \E c \in Callers : Deref(c)
    \/ \E c \in Callers : Persist(c)
    \/ \E c \in Callers : Post(c)
    \/ \E c \in Callers : Return(c)

SpecTwoRows == InitTwoRows /\ [][NextTwoRows]_vars

(* ------------------------------- emojis ------------------------------- *)

\* gtsmodel.Emoji: URI and ID (0: no ID yet, as converted from the wire).
Emoji(uri, id) == [uri |-> uri, id |-> id]
EmojiA == "https://s.ex.org/emoji/a"
EmojiB == "https://s.ex.org/emoji/b"

\* The emojis table, and the emojis an account may carry: stored ones and
\* ones without ID.
EmojiTable == {Emoji(EmojiA, 1), Emoji(EmojiB, 2)}
AnyEmoji == EmojiTable \cup {Emoji(EmojiA, 0), Emoji(EmojiB, 0)}

\* The lists over S of at most n elements.
ListsOf(S, n) == UNION {[1..k -> S] : k \in 0..n}

\* The IDs of a list of emojis, one by one.
IDsOf(emojis) == [i \in DOMAIN emojis |-> emojis[i].id]

\* The accounts passed as targetAccount: Emojis with the EmojiIDs that go
\* with them, or EmojiIDs alone, one of them of no stored emoji.
TargetAccounts ==
    {[Emojis |-> e, EmojiIDs |-> SelectSeq(IDsOf(e), LAMBDA i : i # 0)] :
        e \in ListsOf(AnyEmoji, MaxEmojis)}
    \cup {[Emojis |-> <<>>, EmojiIDs |-> ids] : ids \in {<<1>>, <<1, 2>>, <<3>>}}

\* What populateEmojis may return: an error, or a list of emojis.
Populated ==
    {[ok |-> FALSE, emojis |-> <<>>]}
    \cup {[ok |-> TRUE, emojis |-> e] : e \in ListsOf(AnyEmoji, MaxEmojis)}

\* DB.GetEmojiByID for each ID (account.go:939-948): the stored emojis, and
\* whether each was found.
EmojisByID(ids) ==
    [ok |-> \A i \in DOMAIN ids : \E e \in EmojiTable : e.id = ids[i],
     emojis |-> [i \in DOMAIN ids |->
                   IF \E e \in EmojiTable : e.id = ids[i]
                   THEN CHOOSE e \in EmojiTable : e.id = ids[i]
                   ELSE Emoji("", 0)]]

\* maybeEmojis (account.go:931-948): the emojis of the account, or those
\* of its IDs when it carries more IDs than emojis.
MaybeEmojis(targetAccount) ==
    IF Len(targetAccount.EmojiIDs) > Len(targetAccount.Emojis)
    THEN EmojisByID(targetAccount.EmojiIDs)
    ELSE [ok |-> TRUE, emojis |-> targetAccount.Emojis]

\* A comparison by URI alone.
SameEmoji_ByURI(gotEmoji, maybeEmoji) == gotEmoji.uri = maybeEmoji.uri

\* gotEmoji.URI == maybeEmoji.URI && gotEmoji.ID == maybeEmoji.ID
\* (account.go:1021).
SameEmoji(gotEmoji, maybeEmoji) ==
    gotEmoji.uri = maybeEmoji.uri /\ gotEmoji.id = maybeEmoji.id

\* fetchRemoteAccountEmojis (account.go:930-1036), populated being what
\* populateEmojis returned: whether the emojis changed, the error, and the
\* Emojis and EmojiIDs of the account afterwards.
fetchRemoteAccountEmojis(targetAccount, populated) ==
    LET maybe == MaybeEmojis(targetAccount)
        maybeEmojis == maybe.emojis
        gotEmojis == populated.emojis
        Result(changed, err) ==
            [changed |-> changed, err |-> err,
             Emojis |-> IF changed THEN gotEmojis ELSE targetAccount.Emojis,
             EmojiIDs |-> IF changed THEN IDsOf(gotEmojis) ELSE targetAccount.EmojiIDs]
    IN  IF ~maybe.ok \/ ~populated.ok THEN Result(FALSE, TRUE)
        ELSE IF Len(maybeEmojis) = 0 /\ Len(gotEmojis) = 0 THEN Result(FALSE, FALSE)
        ELSE IF Len(maybeEmojis) # Len(gotEmojis) THEN Result(TRUE, FALSE)
        ELSE IF \E i \in DOMAIN maybeEmojis :
                  ~\E j \in DOMAIN gotEmojis : maybeEmojis[i].uri = gotEmojis[j].uri
        THEN Result(TRUE, FALSE)
        ELSE IF \E j \in DOMAIN gotEmojis :
                  ~\E i \in DOMAIN maybeEmojis : SameEmoji(gotEmojis[j], maybeEmojis[i])
        THEN Result(TRUE, FALSE)
        ELSE Result(FALSE, FALSE)

\* A call of fetchRemoteAccountEmojis by itself, the one call of the
\* behaviour.
CallFetchRemoteAccountEmojis(targetAccount, populated) ==
    /\ last = NoCall
    /\ last' = [fn |-> "fetchRemoteAccountEmojis", targetAccount |-> targetAccount,
                maybeEmojis |-> MaybeEmojis(targetAccount).emojis,
                gotEmojis |-> populated.emojis,
                result |-> fetchRemoteAccountEmojis(targetAccount, populated)]
    /\ UNCHANGED <<now, db, locks, nextID, calls, queued, blocked, media, statuses, g, fediAPI>>

(* ------------------------ featured collection ------------------------- *)

\* gtsmodel.Status: URI, AccountURI, BoostOfID and PinnedAt (0: the zero
\* time).
StatusRow(uri, accountURI, boostOfID, pinnedAt) ==
    [uri |-> uri, accountURI |-> accountURI, boostOfID |-> boostOfID,
     pinnedAt |-> pinnedAt]

\* The items of a collection, in the order the remote lists them, and the
\* collections the remote may answer with.
ItemOrder == <<S1, S2, S3, BobStatus, BoostStatus, ForeignStatus>>
Items == {ItemOrder[i] : i \in DOMAIN ItemOrder}
Collections ==
    {LET Named(x) == x \in T IN SelectSeq(ItemOrder, Named) :
        T \in {U \in SUBSET Items : Cardinality(U) <= MaxItems}}

\* DB.GetAccountPinnedStatuses: the rows of the account with PinnedAt set.
DBGetAccountPinnedStatuses(table, account) ==
    {r \in table : r.accountURI = account.uri /\ r.pinnedAt # 0}

\* DB.UpdateStatus(ctx, status, "pinned_at"): the column of the row with
\* the URI of the status is written, no other.
DBUpdateStatusPinnedAt(table, uri, pinnedAt) ==
    {IF r.uri = uri THEN [r EXCEPT !.pinnedAt = pinnedAt] ELSE r : r \in table}

\* The status as the remote serves it: the statuses of alice named above,
\* none of them a boost.
RemoteStatus(uri) == StatusRow(uri, AliceURI, "", 0)

\* The items of a collection that are on the host of the collection.
OnHost(items) == {items[i] : i \in {j \in DOMAIN items : HostOf(items[j]) = HostOf(FeaturedURI)}}

\* The call that starts now starts while a worker is inside the function
\* (""), or while none is ("alone"), and then it may be the second of two
\* in a row ("row"): the call that returned last ran from start to return
\* with no other inside the function, for the same account and with the
\* same items on the host of the collection; that call may have resolved
\* every item and written every update ("clean").
InARow(account, items) ==
    LET first == {d \in Callers : /\ g[d].op = "dereferenceAccountFeatured"
                                  /\ g[d].feat.after = "last" /\ g[d].acc = account
                                  /\ g[d].feat.statusURIs = OnHost(items)}
    IN  IF \E d \in Callers : g[d].pc # "idle" THEN ""
        ELSE IF first = {} THEN "alone"
        ELSE IF \E d \in first : g[d].feat.plain THEN "clean"
        ELSE "row"

\* The call is over: of its locals are kept, for a next call to be compared
\* with, the URIs it observed, whether it logged no error, and whether it
\* ran with no other worker inside the function ("last").
FeaturedOver(f) ==
    [NewFrame(f.op, f.arg) EXCEPT
        !.acc = f.acc,
        !.feat = [NoFeat EXCEPT
                    !.statusURIs = f.feat.statusURIs,
                    !.plain = f.feat.unresolved = {} /\ f.feat.unwritten = {},
                    !.after = IF f.feat.after = "" THEN "" ELSE "last"]]

\* Another call starts: a call that is running no longer runs alone, and
\* one that has returned is no longer the one that returned last.
Overlapped(f) == [f EXCEPT !.feat.after = ""]

\* dereferenceAccountFeatured up to the loop (account.go:1044-1061): the
\* collection is dereferenced, or not, and the pinned rows are read.
FeaturedStart(c, account, items) ==
    /\ MayStart(c)
    /\ calls' = calls + 1
    /\ account \in db
    /\ LET f == NewFrame("dereferenceAccountFeatured", account.uri) IN
       \E ok \in BOOLEAN :
         g' = [d \in Callers |->
                 IF d # c THEN Overlapped(g[d])
                 ELSE IF ok
                 THEN [f EXCEPT !.pc = "items", !.acc = account,
                         !.feat = [NoFeat EXCEPT
                            !.collect = items,
                            !.after = InARow(account, items),
                            !.wasPinned = DBGetAccountPinnedStatuses(statuses, account)]]
                 ELSE [f EXCEPT !.err = Err("deref", 0)]]
    /\ UNCHANGED <<now, db, locks, nextID, queued, blocked, media, statuses, last, fediAPI>>

\* A variant that trusts every item.
SharesHost_Always(itemIRI, uri) == TRUE

\* An item is trusted only on the host of the collection
\* (account.go:1076-1080).
SharesHost(itemIRI, uri) == HostOf(itemIRI) = HostOf(uri)

\* A variant that pins a status of the account whether pinned or not.
Pinnable_IgnoresPinned(status, account) ==
    /\ status.accountURI = account.uri
    /\ status.boostOfID = ""

\* The status is to be pinned: not pinned yet, of the account, no boost
\* (account.go:1101-1120).
Pinnable(status, account) ==
    /\ status.pinnedAt = 0
    /\ status.accountURI = account.uri
    /\ status.boostOfID = ""

\* A variant that notes the URI of an item only once its status is there.
Observed_WhenResolved(ft, itemIRI, got) ==
    IF got THEN [ft EXCEPT !.statusURIs = @ \cup {itemIRI}] ELSE ft

\* The URI of the item is noted before the status is looked up
\* (account.go:1082-1086).
Observed(ft, itemIRI, got) == [ft EXCEPT !.statusURIs = @ \cup {itemIRI}]

\* One turn of the loop over the items up to the update
\* (account.go:1063-1120), or the end of the loop. getStatusByURI returns a
\* stored status, with or without the error of a refresh that failed, and
\* fetches and stores an unknown one, or returns the error alone. The loop
\* goes the same way for a status with and without error; the error is
\* recorded for a pinned status and is one outcome with none for another.
FeaturedItem(c) ==
    LET f == g[c]
        ft == f.feat
        item == Head(ft.collect)
        rest == [ft EXCEPT !.collect = Tail(@)]
        stored == {r \in statuses : r.uri = item}
    IN
    /\ f.pc = "items" /\ ft.pending = ""
    /\ IF ft.collect = <<>>
       THEN /\ g' = [g EXCEPT ![c] = [f EXCEPT !.pc = "unpin",
                                               !.feat.todo = ft.wasPinned]]
            /\ UNCHANGED statuses
       ELSE IF ~SharesHost(item, FeaturedURI)
       THEN /\ g' = [g EXCEPT ![c] = [f EXCEPT !.feat =
                            [rest EXCEPT !.plain = FALSE, !.untrusted = @ \cup {item}]]]
            /\ UNCHANGED statuses
       ELSE \E got \in (IF stored # {} THEN {TRUE} ELSE BOOLEAN),
               err \in (IF \E r \in stored : r.pinnedAt # 0 THEN BOOLEAN ELSE {FALSE}) :
              LET status == IF stored # {} THEN CHOOSE r \in stored : TRUE
                            ELSE RemoteStatus(item)
                  failed == err \/ ~got
                  seen == [Observed(rest, item, got) EXCEPT
                             !.unresolved = IF failed THEN @ \cup {item} ELSE @,
                             !.plain = IF failed THEN FALSE ELSE @]
              IN
              IF ~got
              THEN /\ g' = [g EXCEPT ![c] = [f EXCEPT !.feat = seen]]
                   /\ UNCHANGED statuses
              ELSE /\ statuses' = statuses \cup {status}
                   /\ g' = [g EXCEPT ![c] = [f EXCEPT !.feat =
                        IF Pinnable(status, f.acc)
                        THEN [seen EXCEPT !.pending = item]
                        ELSE IF status.pinnedAt # 0 THEN seen
                        ELSE [seen EXCEPT !.plain = FALSE]]]
    /\ UNCHANGED <<now, db, locks, nextID, calls, queued, blocked, media, last, fediAPI>>

\* The update that ends the turn for a status to be pinned
\* (account.go:1122-1128): PinnedAt is written, or the update fails and
\* is logged.
FeaturedPin(c) ==
    LET f == g[c]
        ft == f.feat
        tried == [f EXCEPT !.stat.upd = @ + 1, !.feat.pending = ""]
    IN
    /\ f.pc = "items" /\ ft.pending # ""
    /\ \E ok \in BOOLEAN :
         IF ok
         THEN /\ g' = [g EXCEPT ![c] = tried]
              /\ statuses' = DBUpdateStatusPinnedAt(statuses, ft.pending, now)
         ELSE /\ g' = [g EXCEPT ![c] =
                        [tried EXCEPT !.feat.plain = FALSE,
                                      !.feat.unwritten = @ \cup {ft.pending}]]
              /\ UNCHANGED statuses
    /\ UNCHANGED <<now, db, locks, nextID, calls, queued, blocked, media, last, fediAPI>>

\* One turn of the loop over the rows that were pinned (account.go:
\* 1131-1152), or the return.
FeaturedUnpin(c) ==
    LET f == g[c]
        ft == f.feat
        status == CHOOSE r \in ft.todo : TRUE
        rest == [ft EXCEPT !.todo = @ \ {status}]
        tried == [f EXCEPT !.stat.upd = @ + 1, !.feat = rest]
    IN
    /\ f.pc = "unpin"
    /\ IF ft.todo = {}
       THEN /\ g' = [g EXCEPT ![c] = FeaturedOver(f)]
            /\ UNCHANGED statuses
       ELSE IF status.uri \in ft.statusURIs
       THEN /\ g' = [g EXCEPT ![c] = [f EXCEPT !.feat = rest]]
            /\ UNCHANGED statuses
       ELSE \E ok \in BOOLEAN :
              IF ok
              THEN /\ g' = [g EXCEPT ![c] = tried]
                   /\ statuses' = DBUpdateStatusPinnedAt(statuses, status.uri, 0)
              ELSE /\ g' = [g EXCEPT ![c] =
                             [tried EXCEPT !.feat.plain = FALSE,
                                           !.feat.unwritten = @ \cup {status.uri}]]
                   /\ UNCHANGED statuses
    /\ UNCHANGED <<now, db, locks, nextID, calls, queued, blocked, media, last, fediAPI>>

\* The statuses stored before any collection was read: two of alice, each
\* pinned or not, one of bob and a boost; the third of alice is not stored,
\* and one of hers on another host may be, pinned beside the first.
InitFeatured ==
    /\ fediAPI = <<>>
    /\ now = StartTime
    /\ db = {StoredAlice}
    /\ locks = {}
    /\ nextID = 2
    /\ calls = 0
    /\ queued = 0
    /\ blocked = {}
    /\ media = NoMedia
    /\ \E p1, p2 \in {0, 1} :
         \E foreign \in (IF p1 = 1 /\ p2 = 0
                         THEN SUBSET {StatusRow(ForeignStatus, AliceURI, "", 1)}
                         ELSE {{}}) :
           statuses = {StatusRow(S1, AliceURI, "", p1), StatusRow(S2, AliceURI, "", p2),
                       StatusRow(BobStatus, BobURI, "", 0),
                       StatusRow(BoostStatus, AliceURI, S1, 0)} \cup foreign
    /\ last = NoCall
    /\ g = [c \in Callers |-> IdleFrame]

\* The federator workers run the tasks enqueued for alice. PinnedAt is
\* written from the clock and read only for being zero or not: the clock
\* stands still.
NextFeatured ==
    \/ \E c \in Callers, a \in db, items \in Collections : FeaturedStart(c, a, items)
    \/ \E c \in Callers : FeaturedItem(c)
    \/ \E c \in Callers : FeaturedPin(c)
    \/ \E c \in Callers : FeaturedUnpin(c)

SpecFeatured == InitFeatured /\ [][NextFeatured]_vars

(* ---------------------- functions by themselves ---------------------- *)

\* The accounts accountFresh is called on: local or remote, an instance
\* account or not, suspended or not, new or not, fetched at any instant or
\* never; and the windows: none, or zero to two clock units.
FreshAccounts ==
    {[NilAcc EXCEPT !.id = 1, !.uri = AliceURI, !.username = n, !.domain = d,
                    !.suspended = sp, !.createdAt = cr, !.fetchedAt = fe] :
        n \in {"alice", "ex.org"}, d \in {"", "ex.org"}, sp \in BOOLEAN,
        cr \in {0, 1}, fe \in 0..MaxTime}
Windows == {NilWindow, 0, 1, 2}

\* A call of accountFresh by itself, the one call of the behaviour: the
\* function keeps nothing from one call to the next.
CallAccountFresh(account, window) ==
    /\ last = NoCall
    /\ last' = [fn |-> "accountFresh", account |-> account, window |-> window,
                at |-> now, result |-> accountFresh(account, window, now)]
    /\ UNCHANGED <<now, db, locks, nextID, calls, queued, blocked, media, statuses, g, fediAPI>>

\* No call was made; the table is empty.
InitCalls ==
    /\ fediAPI = <<>>
    /\ now = StartTime
    /\ db = {}
    /\ locks = {}
    /\ nextID = 1
    /\ calls = 0
    /\ queued = 0
    /\ blocked = {}
    /\ media = NoMedia
    /\ statuses = {}
    /\ last = NoCall
    /\ g = [c \in Callers |-> IdleFrame]

NextCalls ==
    \/ Tick
    \/ \E a \in FreshAccounts, w \in Windows : CallAccountFresh(a, w)
    \/ \E t \in TargetAccounts, p \in Populated : CallFetchRemoteAccountEmojis(t, p)

SpecCalls == InitCalls /\ [][NextCalls]_vars

(* ------------------------------ claims -------------------------------- *)

\* Caller c has finished a call of op.
Done(c, op) == g[c].pc = "idle" /\ g[c].op = op

\* c and d have finished GetAccountByURI for alice's URI u, and neither
\* found a row when it looked: they ran concurrently.
BurstNew(c, d, u) ==
    /\ c # d
    /\ Done(c, "GetAccountByURI") /\ Done(d, "GetAccountByURI")
    /\ g[c].arg = u /\ g[d].arg = u
    /\ g[c].path = "stub" /\ g[d].path = "stub"

\* The remote answered c's call with alice's account: no remote call of it
\* failed.
RemoteFine(c) ==
    g[c].err.kind \notin {"finger", "finger2", "deref", "wrongtype", "malformed",
                          "mismatch", "nodomain", "blocked", "baduri"}

\* C1: when two callers concurrently call GetAccountByURI for the same
\* remote URI that has no local row, and the remote answers well, one
\* Dereference call is made in total.
C1_OneDereferencePerBurst ==
    \A c, d \in Callers :
        BurstNew(c, d, AliceURI) /\ RemoteFine(c) /\ RemoteFine(d)
            => g[c].stat.deref + g[d].stat.deref = 1

\* C2: when two callers concurrently call GetAccountByURI for the same
\* never-seen remote URI, and the remote answers well, one row is persisted
\* for it and both callers return an account that carries the ID of that row.
C2_OneRowSameID ==
    \A c, d \in Callers : \A u \in RemoteURIs :
        BurstNew(c, d, u) /\ RemoteFine(c) /\ RemoteFine(d)
            => /\ g[c].ret.err = NoErr /\ g[d].ret.err = NoErr
               /\ g[c].ret.acc.id = g[d].ret.acc.id
               /\ Cardinality(db) = 1
               /\ \A r \in db : r.id = g[c].ret.acc.id

\* The row stored with the ID of account a, as it is now.
Stored(a) == One({r \in db : r.id = a.id})

\* Caller c entered enrichAccountSafely with a row of the database and
\* without wire object.
OnStoredRow(c) == g[c].path \in {"existing", "refresh"}

\* C3: a caller that gets the lock of a stale stored account after another
\* caller finished a successful refresh under that lock finds the account
\* fresh and performs no remote dereference.
C3_RecheckUnderLock ==
    \A c, d \in Callers :
        /\ c # d
        /\ g[d].pc = "idle" /\ OnStoredRow(d) /\ g[d].ret.wire # NilWire
        /\ g[c].pc = "deref" /\ OnStoredRow(c) /\ g[c].wire = NilWire
        /\ g[c].acc.id = g[d].ret.acc.id
        => ~accountFresh(Stored(g[c].acc), DefaultAccountFreshness, now)

\* Caller c is inside enrichAccount.
Enriching(c) == g[c].pc \in {"deref", "media", "persist", "post"}

\* C4 as claimed: at most one enrichment of the remote account is in
\* progress, whichever entry point started it.
C4_OneEnrichmentPerAccount ==
    \A c, d \in Callers : Enriching(c) /\ Enriching(d) => c = d

\* C4 as amended: at most one enrichment is in progress per lock key (the
\* URI of the account passed in, or the key made of domain and username
\* when it has no URI); every enrichment holds its key.
C4_OneEnrichmentPerKey ==
    /\ \A c \in Callers : Enriching(c) => g[c].key \in locks
    /\ \A c, d \in Callers :
         Enriching(c) /\ Enriching(d) /\ g[c].key = g[d].key => c = d

\* A caller waits for the key under which another caller is enriching.
C4_Witness ==
    \E c, d \in Callers :
        /\ c # d /\ Enriching(c)
        /\ g[d].pc = "lock" /\ g[d].key = g[c].key

\* C5: when PutAccount reported AlreadyExists for a new stub with URI U, the
\* call returns without error the account stored under U with a nil wire
\* object, and enqueues nothing.
C5_RaceLoserGetsWinnerRow ==
    \A c \in Callers :
        g[c].pc = "idle" /\ IsAlreadyExists(g[c].err)
            => /\ g[c].ret.err = NoErr
               /\ g[c].ret.acc # NilAcc
               /\ g[c].ret.acc = DBGetAccountByURI(g[c].acc.uri)
               /\ g[c].ret.wire = NilWire
               /\ g[c].stat.enq = 0

\* The row with the ID of account a in the table d.
StoredIn(d, a) == One({r \in d : r.id = a.id})

\* Caller c leaves enrichAccount in this step with error class Failed,
\* after a dereference it attempted for a stored account, and
\* enrichAccountSafely handles the failure and unlocks.
FailedRefreshStep(c, Failed(_)) ==
    /\ g[c].pc = "post" /\ g'[c].pc = "ret"
    /\ OnStoredRow(c)
    /\ g[c].stat.deref > 0
    /\ g[c].err # NoErr /\ Failed(g[c].err)

\* The step leaves the stored row of c's account fetched now, hence fresh.
StampedNow(c) ==
    LET row == StoredIn(db', g[c].acc) IN
    /\ row # NilAcc
    /\ row.fetchedAt = now
    /\ accountFresh(row, DefaultAccountFreshness, now)

AnyError(e) == TRUE
HasErrorStatus(e) == e.code >= 400

FetchFailedOnStored(c, ops) ==
    /\ g[c].pc = "idle" /\ g[c].op \in ops
    /\ OnStoredRow(c)
    /\ g[c].err.kind = "deref"

\* The call returned the account it was given, stored before, without wire
\* object and without error.
FellBack(c) ==
    /\ g[c].ret.err = NoErr
    /\ g[c].ret.wire = NilWire
    /\ g[c].ret.acc = g[c].acc /\ ~IsNew(g[c].ret.acc)

DerefFailedOnNew(c) ==
    /\ Done(c, "GetAccountByURI") /\ g[c].path = "stub"
    /\ g[c].stat.deref > 0
    /\ g[c].err.kind = "deref"

\* C8: when the dereference fails for a never-seen URI, GetAccountByURI
\* returns an Unretrievable error and no account, calls no PutAccount and
\* enqueues nothing.
C8_NewAccountFetchFailure ==
    \A c \in Callers :
        DerefFailedOnNew(c)
            => /\ IsUnretrievable(g[c].ret.err)
               /\ g[c].ret.acc = NilAcc /\ g[c].ret.wire = NilWire
               /\ g[c].stat.put = 0
               /\ g[c].stat.enq = 0

\* The dereference failed for a never-seen URI, with and without status.
C8_Witness ==
    \E c, d \in Callers :
        /\ DerefFailedOnNew(c) /\ StatusCode(g[c].err) = 0
        /\ DerefFailedOnNew(d) /\ StatusCode(g[d].err) >= 400

\* Caller c has finished a blocking call in which the conversion of the
\* remote response failed.
ConversionFailed(c) ==
    /\ g[c].pc = "idle"
    /\ g[c].op \in {"GetAccountByURI", "GetAccountByUsernameDomain", "RefreshAccount"}
    /\ g[c].err.kind = "malformed"

C10_FetchedAtMonotonic ==
    [][\A r \in db : \A q \in db' : q.id = r.id => q.fetchedAt >= r.fetchedAt]_vars

\* The host part of URI u is this instance.
OnThisHost(u) == HostOf(u) = Host \/ HostOf(u) = AccountDomain

\* Caller c has finished GetAccountByURI for a URI on this instance.
LocalLookupDone(c) == Done(c, "GetAccountByURI") /\ OnThisHost(g[c].arg)

RefreshOfSuspended(c) == g[c].op = "RefreshAccount" /\ IsSuspended(g[c].acc)

\* C12: RefreshAccount for a suspended account, with or without a wire
\* object supplied, takes no lock, makes no remote call, writes nothing to
\* the store and enqueues nothing, and returns the account it was given
\* with a nil wire object and no error.
C12_SuspendedUntouched ==
    \A c \in Callers :
        RefreshOfSuspended(c)
            => /\ g[c].pc \in {"ret", "idle"}
               /\ g[c].key = ""
               /\ g[c].stat = NoStat
               /\ g[c].pc = "idle"
                    => g[c].ret = [acc |-> g[c].acc, wire |-> NilWire, err |-> NoErr]

\* RefreshAccount has returned for a suspended account passed without wire
\* object, and enrichAccountSafely has just been left for one passed with a
\* wire object.
C12_Witness ==
    \E c, d \in Callers :
        /\ RefreshOfSuspended(c) /\ g[c].pc = "idle" /\ g[c].ret.acc = SuspendedAlice
        /\ RefreshOfSuspended(d) /\ g[d].pc = "ret"

\* Row r is the row of alice, not suspended, and the clock is within the
\* default window of its last fetch.
InWindow(r) ==
    /\ r.uri = AliceURI /\ ~r.suspended /\ r.domain = "ex.org"
    /\ now <= r.fetchedAt + DefaultAccountFreshness

\* Caller c starts a lookup in this step.
LookupStart(c) ==
    /\ g[c].pc = "idle" /\ calls' = calls + 1 /\ g'[c] # g[c]
    /\ g'[c].op \in {"GetAccountByURI", "GetAccountByUsernameDomain"}

\* The lookup c starts names alice in any way: her URI, her URL, a URI that
\* redirects to her, or her username with a domain that webfinger resolves
\* to hers.
NamesAlice(c) ==
    \/ g'[c].op = "GetAccountByURI" /\ g'[c].arg \in RemoteURIs
    \/ g'[c].op = "GetAccountByUsernameDomain" /\ g'[c].arg \in LookupDomains

\* The lookup c starts names row r as it is stored: by its URI or URL, or
\* by its username and domain.
NamesStored(c, r) ==
    \/ g'[c].op = "GetAccountByURI" /\ g'[c].arg \in {r.uri, r.url}
    \/ g'[c].op = "GetAccountByUsernameDomain" /\ g'[c].arg = r.domain

\* The lookup of c is over in the same step: row r is returned with a nil
\* wire object, no remote call was made, nothing enqueued, nothing stored.
ServedFromCache(c, r) ==
    /\ g'[c].pc = "idle"
    /\ g'[c].ret = [acc |-> r, wire |-> NilWire, err |-> NoErr]
    /\ g'[c].stat = NoStat
    /\ db' = db /\ queued' = queued /\ locks' = locks

\* C13 as claimed: while the stored account is inside the freshness window,
\* every lookup for it, however it names the account, is served from the
\* store: no remote call, nil wire object, nothing enqueued, row unchanged.
C13_EveryLookupServedFromCache ==
    [][\A c \in Callers : \A r \in db :
         LookupStart(c) /\ InWindow(r) /\ NamesAlice(c) => ServedFromCache(c, r)]_vars

\* C13 as amended: while the stored account is inside the freshness window
\* (the last instant FetchedAt + window included), every lookup by the URI
\* or URL of the row, or by its username and domain, is served from the
\* store: no remote call, nil wire object, nothing enqueued, row unchanged.
C13_StoredNameServedFromCache ==
    [][\A c \in Callers : \A r \in db :
         LookupStart(c) /\ InWindow(r) /\ NamesStored(c, r) => ServedFromCache(c, r)]_vars

\* One caller has fetched alice from the remote, and at the last instant of
\* the window another has been served her row from the store.
C13_Witness ==
    \E c, d \in Callers :
        /\ g[d].pc = "idle" /\ g[d].ret.wire # NilWire /\ g[d].ret.acc \in db
        /\ Done(c, "GetAccountByURI") /\ g[c].stat = NoStat
        /\ g[c].ret.acc = g[d].ret.acc
        /\ now = g[c].ret.acc.fetchedAt + DefaultAccountFreshness

\* Caller c has finished a lookup of a never-seen account whose enrichment
\* stopped at the domain block check.
BlockedOnNew(c) ==
    /\ g[c].pc = "idle" /\ g[c].path = "stub"
    /\ g[c].err.kind = "blocked"

\* Caller d has finished a call that failed on a network call of its own:
\* a webfinger or a dereference that did not get through.
NetworkFailure(d) ==
    /\ g[d].pc = "idle" /\ g[d].ret.err # NoErr
    /\ g[d].err.kind \in {"finger", "finger2", "deref"}
    /\ StatusCode(g[d].err) = 0

\* C14: when the host of the account URI is domain-blocked, the lookup of
\* a never-seen account makes no Dereference and no PutAccount and returns
\* an error that the caller can tell from the error of a network failure.
C14_BlockedErrorKind ==
    \A c \in Callers :
        BlockedOnNew(c)
            => /\ g[c].stat.deref = 0 /\ g[c].stat.put = 0
               /\ g[c].ret.acc = NilAcc /\ g[c].ret.err # NoErr
               /\ \A d \in Callers :
                    NetworkFailure(d) => ErrorMarks(g[d].ret.err) # ErrorMarks(g[c].ret.err)

\* In this step the dereference of c is answered after a redirect to a
\* URI under which row r is stored, and the answer passes every check.
RedirectedTo(c, r) ==
    /\ g[c].pc = "deref" /\ g'[c].pc \in {"media", "persist"}
    /\ g[c].wire = NilWire
    /\ g'[c].uri # g[c].uri
    /\ r.uri = g'[c].uri

\* In this step c persists the account it converted, based on a row that
\* was found in the store.
PersistsOnRow(c) == g[c].pc = "persist" /\ g'[c].pc # "persist" /\ ~IsNew(g[c].cur)

\* The enrichment of c started from a stub made for a URI and went on with
\* a row found under the final URI of the dereference.
OnRedirectRow(c) ==
    /\ g[c].op = "GetAccountByURI" /\ g[c].path = "stub"
    /\ ~g[c].same /\ g[c].uri # g[c].arg

\* The IDs of the rows of table d.
IDs(d) == {r.id : r \in d}

\* C15: when the dereference of U1 is redirected to U2 and a row is stored
\* under U2, the enrichment goes on with that row: the account it persists
\* carries the ID of the row, it is written by an update and not by
\* PutAccount, no row is added, and the stored URI or URL is U2 afterwards.
C15_RedirectUpdatesExistingRow ==
    [][\A c \in Callers :
         /\ \A r \in db :
              RedirectedTo(c, r)
                  => /\ g'[c].cur = r
                     /\ g'[c].latest.id = r.id
                     /\ ~IsNew(g'[c].cur)
         /\ PersistsOnRow(c) /\ OnRedirectRow(c)
              => /\ g'[c].stat.put = g[c].stat.put
                 /\ g'[c].stat.upd = g[c].stat.upd + 1
                 /\ IDs(db') = IDs(db)
                 /\ LET row == StoredIn(db', g[c].cur) IN
                      /\ row = g'[c].latest
                      /\ row.uri = g[c].uri \/ row.url = g[c].uri]_vars

\* GetAccountByURI for the redirecting URI has updated the row stored under
\* the final URI.
C15_Witness ==
    \E c \in Callers :
        /\ g[c].pc = "post" /\ g[c].err = NoErr
        /\ g[c].op = "GetAccountByURI" /\ g[c].arg = AliasURI
        /\ g[c].uri = AliceURI /\ ~g[c].same
        /\ g[c].stat.upd = 1 /\ g[c].stat.put = 0
        /\ Stored(g[c].cur).uri = AliceURI

\* In this step the account c converted passes the checks and is stamped.
Stamped(c) == g[c].pc = "deref" /\ g'[c].pc \in {"media", "persist"}

\* C16: the ID of a stored row never changes: no ID leaves the table, the
\* account an enrichment stamps carries the ID of the row it is based on,
\* and an update changes the row of that ID and no other, also when the
\* update corrects the domain or the URI of the row.
C16_IDNeverChanges ==
    [][/\ IDs(db) \subseteq IDs(db')
       /\ \A c \in Callers :
            /\ Stamped(c) => g'[c].latest.id = g'[c].cur.id
            /\ Stamped(c) /\ ~IsNew(g'[c].cur) => g'[c].cur.id \in IDs(db)
            /\ PersistsOnRow(c) /\ g'[c].err = NoErr
                 => LET old == StoredIn(db, g[c].cur)
                        new == StoredIn(db', g[c].cur)
                    IN  /\ old # NilAcc
                        /\ new = g'[c].latest
                        /\ db' \ {new} = db \ {old}]_vars

\* A refresh has corrected the URI and the domain of the row stored before
\* the account moved, and the row still has its ID.
C16_Witness ==
    \E r \in db :
        /\ r.id = MovedAlice.id /\ r.createdAt = MovedAlice.createdAt
        /\ r.uri = AliceURI /\ r.domain = "ex.org"
        /\ r.fetchedAt > MovedAlice.fetchedAt

\* Caller c has finished one of the three blocking operations.
BlockingDone(c) ==
    /\ g[c].pc = "idle"
    /\ g[c].op \in {"GetAccountByURI", "GetAccountByUsernameDomain", "RefreshAccount"}

\* The call of c itself wrote the account from what the remote sent: its
\* enrichment ended without error after one insert or one update.
WroteFromRemote(c) ==
    /\ g[c].err = NoErr
    /\ g[c].stat.put + g[c].stat.upd = 1
    /\ g[c].ret.acc.id \in IDs(db)
    /\ g[c].ret.acc.fetchedAt >= StartTime

\* C17: the three blocking operations enqueue a featured-collection fetch
\* if and only if they return a non-nil wire object, and they return one
\* only when the call itself wrote the account from remote data: never when
\* served from the store, on fallback, or after a lost insert race.
C17_EnqueueIffWire ==
    \A c \in Callers :
        BlockingDone(c)
            => /\ g[c].stat.enq > 0 <=> g[c].ret.wire # NilWire
               /\ g[c].ret.wire # NilWire
                    => /\ g[c].ret.err = NoErr /\ g[c].ret.acc # NilAcc
                       /\ WroteFromRemote(c)

\* One call has returned a wire object and enqueued, another has lost the
\* insert race and returned the stored row without wire object.
C17_Witness ==
    \E c, d \in Callers :
        /\ BlockingDone(c) /\ g[c].ret.wire # NilWire /\ g[c].stat.enq > 0
        /\ BlockingDone(d) /\ IsAlreadyExists(g[d].err)
        /\ g[d].ret.err = NoErr /\ g[d].ret.wire = NilWire /\ g[d].stat.enq = 0

\* Account a needs no refresh now: it is local, or suspended, or inside
\* the default freshness window.
NeedsNoRefresh(a) ==
    \/ a.domain \in {"", Host, AccountDomain}
    \/ a.suspended
    \/ now <= a.fetchedAt + DefaultAccountFreshness

\* Caller c calls RefreshAccountAsync in this step, without wire object.
AsyncStartNoWire(c) ==
    /\ g[c].pc = "idle" /\ calls' = calls + 1 /\ g'[c] # g[c]
    /\ g'[c].op = "RefreshAccountAsync"
    /\ g'[c].given = NilWire

\* C18: RefreshAccountAsync called without wire object for an account that
\* is local, suspended or inside the freshness window returns at once: it
\* enqueues nothing, makes no remote call, takes no lock and writes nothing.
C18_AsyncFreshNotEnqueued ==
    [][\A c \in Callers :
         AsyncStartNoWire(c) /\ NeedsNoRefresh(g'[c].acc)
             => /\ g'[c].pc = "idle"
                /\ g'[c].stat = NoStat
                /\ queued' = queued /\ db' = db /\ locks' = locks]_vars

\* RefreshAccountAsync has returned at once for a remote account, not
\* suspended, that an earlier call fetched and that is still in its window.
C18_Witness ==
    \E c \in Callers :
        /\ Done(c, "RefreshAccountAsync") /\ g[c].stat = NoStat
        /\ g[c].acc \in db
        /\ ~g[c].acc.suspended /\ g[c].acc.domain = "ex.org"
        /\ g[c].acc.fetchedAt >= StartTime
        /\ now <= g[c].acc.fetchedAt + DefaultAccountFreshness

\* Caller c holds the lock of its enrichment.
HoldsLock(c) == g[c].pc \in {"deref", "media", "persist", "post"}

\* C19: every call that has taken the per-URI lock releases it in the end,
\* whatever the remote sent, the URL of an avatar that equals the locked
\* key included, provided network calls return.
C19_LockEventuallyReleased ==
    \A c \in Callers : HoldsLock(c) ~> ~HoldsLock(c)

\* The handles of kind k for URL u on which no LoadAttachment has run.
InFlight(k, u) ==
    {h \in media.handles : h.kind = k /\ h.url = u /\ h.state = "pending"}

\* Caller c is inside the fetch of media kind k, past the map, with
\* handle h; it put the handle in the map itself, or found it there.
Loading(c, k, h) ==
    /\ g[c].pc = "media" /\ g[c].mk = k /\ g[c].ms \in {"load", "exit"}
    /\ g[c].mh = h

\* C20: for each of the two maps and each URL, at most one handle is in
\* flight and the map holds at most one entry; a handle in flight is the
\* one in the map, so that a call needing the URL meanwhile takes it; and
\* an entry is in the map only while the call that made it is still in the
\* fetch, whether its load succeeded or failed.
C20_OneHandlePerURL ==
    \A k \in {"avatar", "header"} : \A u \in MediaURLs :
        /\ Cardinality(InFlight(k, u)) <= 1
        /\ Cardinality(Processing(DerefMap(k), u)) <= 1
        /\ \A h \in InFlight(k, u) : [url |-> u, h |-> h.id] \in DerefMap(k)
        /\ \A e \in Processing(DerefMap(k), u) :
             \E c \in Callers : Loading(c, k, e.h) /\ g[c].mine

\* While the call that made the handle for the picture is loading it,
\* another enrichment that needs the same picture has taken that handle.
C20_Witness ==
    \E c, d \in Callers :
        /\ c # d
        /\ Loading(c, "avatar", g[c].mh) /\ g[c].mine /\ g[c].ms = "load"
        /\ Loading(d, "avatar", g[c].mh) /\ ~g[d].mine
        /\ InFlight("avatar", AvatarURL) # {}

\* Caller c leaves the check of fetchRemoteAccountAvatar or -Header for an
\* account that names a remote URL.
MediaChecked(c) ==
    /\ g[c].pc = "media" /\ g[c].ms = "lock" /\ g'[c] # g[c]
    /\ RemoteURLOf(g[c].latest, g[c].mk) # ""

\* The base account of caller c has an attachment ID, its remote URL is
\* the newly fetched one, and the attachment is stored with that URL.
UsableCopy(c) ==
    LET k == g[c].mk IN
    /\ AttachmentIDOf(g[c].cur, k) # 0
    /\ RemoteURLOf(g[c].cur, k) = RemoteURLOf(g[c].latest, k)
    /\ \E att \in media.attachments :
         /\ att.id = AttachmentIDOf(g[c].cur, k)
         /\ att.url = RemoteURLOf(g[c].latest, k)

\* C21: with an attachment ID on the base account, the same remote URL and
\* the attachment stored under that URL, no download is started, no
\* tracker entry or handle is made and the attachment ID is kept; the
\* fetch goes on to a processing handle only without such a copy.
C21_KeepsStoredAttachment ==
    [][\A c \in Callers : MediaChecked(c) =>
          /\ UsableCopy(c) <=> g'[c].ms # "load"
          /\ UsableCopy(c) =>
                /\ media' = media
                /\ AttachmentIDOf(g'[c].latest, g[c].mk)
                       = AttachmentIDOf(g[c].cur, g[c].mk)]_vars

\* A refresh kept the stored picture and went on to the header, and no
\* processing handle was ever made.
C21_Witness ==
    \E c \in Callers :
        /\ g[c].pc = "media" /\ g[c].mk = "header"
        /\ g[c].latest.avatarID = OldAttachment.id
        /\ g[c].latest.avatarURL = OldAttachment.url
        /\ OldAttachment \in media.attachments
        /\ media.handles = {}

\* Caller c returns from dereferenceAccountFeatured, every item having
\* been on the host of the collection, resolvable, owned by the account
\* and no boost, and every update having gone through.
FeaturedDone(c) ==
    /\ g[c].pc = "unpin" /\ g'[c].pc = "idle"
    /\ g[c].feat.plain

\* The URIs of the statuses of alice that are pinned in table t.
PinnedURIs(t) == {r.uri : r \in {x \in t : x.accountURI = AliceURI /\ x.pinnedAt # 0}}

\* C22: when dereferenceAccountFeatured returns, the pinned statuses of
\* the account are exactly the observed ones: those pinned before and not
\* observed are cleared, those pinned before and observed are as they
\* were, the others observed are pinned.
C22_PinnedExactlyObserved ==
    [][\A c \in Callers : FeaturedDone(c) =>
          /\ PinnedURIs(statuses') = g[c].feat.statusURIs
          /\ \A r \in g[c].feat.wasPinned :
                IF r.uri \in g[c].feat.statusURIs THEN r \in statuses'
                ELSE [r EXCEPT !.pinnedAt = 0] \in statuses']_vars

\* fetchRemoteAccountEmojis was called and returned no error.
Reconciled ==
    /\ last.fn = "fetchRemoteAccountEmojis"
    /\ ~last.result.err

\* The URIs of a list of emojis.
URIsOf(emojis) == {emojis[i].uri : i \in DOMAIN emojis}

\* What the call did to the account: replaced Emojis and EmojiIDs by the
\* emojis obtained and their IDs when it reports a change, left both alone
\* when it reports none.
ReplacedWholesale ==
    IF last.result.changed
    THEN /\ last.result.Emojis = last.gotEmojis
         /\ last.result.EmojiIDs = IDsOf(last.gotEmojis)
    ELSE /\ last.result.Emojis = last.targetAccount.Emojis
         /\ last.result.EmojiIDs = last.targetAccount.EmojiIDs

\* C23 as stated: a change is reported, and the emojis replaced, exactly
\* when the URIs held before are not the URIs obtained, whatever the IDs.
C23_ChangedIffURIsDiffer ==
    Reconciled =>
        /\ last.result.changed <=> URIsOf(last.maybeEmojis) # URIsOf(last.gotEmojis)
        /\ ReplacedWholesale

\* C23, amended: a change is reported, and the emojis replaced, exactly
\* when the number of emojis differs, or a URI held before is not among
\* those obtained, or an emoji obtained has no emoji held before with its
\* URI and its ID.
C23_ChangedIffURIsOrIDsDiffer ==
    Reconciled =>
        /\ last.result.changed <=>
              \/ Len(last.maybeEmojis) # Len(last.gotEmojis)
              \/ ~(URIsOf(last.maybeEmojis) \subseteq URIsOf(last.gotEmojis))
              \/ \E j \in DOMAIN last.gotEmojis :
                    last.gotEmojis[j] \notin
                        {last.maybeEmojis[i] : i \in DOMAIN last.maybeEmojis}
        /\ ReplacedWholesale

\* The account held an emoji without ID, the same emoji came back with
\* its ID, and a change was reported.
C23_Witness ==
    /\ Reconciled
    /\ last.maybeEmojis = <<Emoji(EmojiA, 0)>>
    /\ last.gotEmojis = <<Emoji(EmojiA, 1)>>
    /\ last.result.changed
    /\ last.result.EmojiIDs = <<1>>

\* accountFresh was just called.
FreshCalled == last'.fn = "accountFresh" /\ last' # last

\* C24: accountFresh says true of every local account and of every
\* suspended account, whatever the fetch time, the window and the clock,
\* and the call changes nothing: not the account, not the store.
C24_LocalAndSuspendedFresh ==
    [][FreshCalled =>
          /\ IsLocal(last'.account) \/ IsSuspended(last'.account) => last'.result
          /\ UNCHANGED <<now, db, locks, nextID, calls, queued, blocked, media,
                         statuses, g, fediAPI>>]_vars

\* A local account and a suspended remote one, both fetched long ago or
\* never, were found fresh.
C24_Witness ==
    /\ last.fn = "accountFresh"
    /\ IsLocal(last.account) \/ IsSuspended(last.account)
    /\ last.account.fetchedAt + WindowOr(last.window) < last.at
    /\ last.result

\* The account is a remote instance account that is not suspended.
RemoteInstance(a) == IsInstance(a) /\ ~IsLocal(a) /\ ~IsSuspended(a)

\* C25 as stated: accountFresh says true of an instance account that is
\* new, whatever its fetch time.
C25_NewInstanceFresh ==
    last.fn = "accountFresh" /\ IsInstance(last.account) /\ IsNew(last.account)
        => last.result

\* C25, amended: accountFresh says true of an instance account that is not
\* new, whatever its fetch time.
C25_ExistingInstanceFresh ==
    last.fn = "accountFresh" /\ IsInstance(last.account) /\ ~IsNew(last.account)
        => last.result

\* A stored remote instance account whose window is over was found fresh.
C25_Witness ==
    /\ last.fn = "accountFresh"
    /\ RemoteInstance(last.account) /\ ~IsNew(last.account)
    /\ last.account.fetchedAt + WindowOr(last.window) < last.at
    /\ last.result

\* C26: of a remote account that is neither suspended nor an instance
\* account, accountFresh says true exactly when the clock is not past
\* FetchedAt plus the window, the default window when none is passed.
C26_FreshUntilWindowEnd ==
    /\ last.fn = "accountFresh"
    /\ ~IsLocal(last.account) /\ ~IsSuspended(last.account)
    /\ ~IsInstance(last.account)
    => (last.result <=>
          last.at <= last.account.fetchedAt
                       + (IF last.window = NilWindow THEN DefaultAccountFreshness
                          ELSE last.window))

\* A remote account was found fresh at the last instant of the default
\* window, no window having been passed.
C26_Witness ==
    /\ last.fn = "accountFresh"
    /\ ~IsLocal(last.account) /\ ~IsSuspended(last.account)
    /\ ~IsInstance(last.account)
    /\ last.window = NilWindow
    /\ last.at = last.account.fetchedAt + DefaultAccountFreshness
    /\ last.result

\* Caller c, under the lock, webfingers the known username of its account
\* and the webfinger fails.
FingerFailed(c) ==
    /\ g[c].pc = "lock" /\ g'[c].pc # "lock"
    /\ g'[c].fingered = "failed"

\* The URI known to enrichAccount before the webfinger: the one it was
\* called with, the URI of the account when called without.
KnownURI(f) == IF f.uri # "" THEN f.uri ELSE f.cur.uri

\* C27: a failed webfinger of a known username ends the enrichment of an
\* account without URI with an Unretrievable error, before any dereference
\* or store write; for an account with a URI it is not an error, the
\* account is left as it was, and the enrichment goes on to the block
\* check and the dereference of the URI known before.
C27_FingerFailure ==
    [][\A c \in Callers : FingerFailed(c) =>
          IF g[c].cur.uri = ""
          THEN /\ g'[c].pc = "post"
               /\ IsUnretrievable(g'[c].err)
               /\ g'[c].stat.deref = 0 /\ g'[c].stat.put = 0 /\ g'[c].stat.upd = 0
               /\ db' = db
          ELSE /\ g'[c].cur = g[c].cur
               /\ g'[c].pc = "deref" \/ HostOf(KnownURI(g[c])) \in blocked
               /\ g'[c].pc = "deref" => g'[c].uri = KnownURI(g[c])]_vars

\* The webfinger for a stored account failed and its URI is being
\* dereferenced.
C27_Witness ==
    \E c \in Callers :
        /\ g[c].pc = "deref" /\ g[c].fingered = "failed"
        /\ g[c].cur \in db
        /\ g[c].uri = g[c].cur.uri
        /\ g[c].stat.deref = 0

\* In this step the webfinger of c succeeds with a domain that is not the
\* recorded one, and row r is stored under the username and that domain.
FingerRediscovers(c, r) ==
    /\ g[c].pc = "lock" /\ g'[c].pc # "lock"
    /\ g'[c].fingered = "ok"
    /\ g'[c].cur.domain # g[c].cur.domain
    /\ r.username = g[c].cur.username /\ r.domain = g'[c].cur.domain

\* The enrichment of c started from a handle lookup and went on with a row
\* other than the account it was passed.
OnRediscoveredRow(c) == g[c].op = "GetAccountByUsernameDomain" /\ ~g[c].same

\* C28: when the webfinger gives a domain other than the recorded one and a
\* row is stored under the username and that domain, the enrichment goes on
\* with that row: the account it persists carries the ID of the row, it is
\* written by an update and not by PutAccount, and no row is added.
C28_FingerUpdatesExistingRow ==
    [][\A c \in Callers :
         /\ \A r \in db :
              FingerRediscovers(c, r)
                  => /\ g'[c].cur.id = r.id
                     /\ g'[c].cur = [r EXCEPT !.uri = g'[c].uri]
                     /\ ~IsNew(g'[c].cur)
         /\ PersistsOnRow(c) /\ OnRediscoveredRow(c)
              => /\ g'[c].stat.put = 0
                 /\ g'[c].stat.upd = g[c].stat.upd + 1
                 /\ IDs(db') = IDs(db)
                 /\ Cardinality(db') = Cardinality(db)
                 /\ LET row == StoredIn(db', g[c].cur) IN
                      /\ row = g'[c].latest
                      /\ row.id = g[c].cur.id]_vars

\* A lookup of alice under the host of her URI, for which no row is
\* stored, has updated the row stored under her account domain.
C28_Witness ==
    \E c \in Callers :
        /\ g[c].pc = "post" /\ g[c].err = NoErr
        /\ g[c].op = "GetAccountByUsernameDomain" /\ g[c].path = "stub"
        /\ ~g[c].same
        /\ g[c].stat.upd = 1 /\ g[c].stat.put = 0
        /\ g[c].latest \in db /\ g[c].latest.id = StoredAlice.id

\* The account converted in frame f has a domain, and its URI or its URL
\* is the URI of the frame: the final URI of the dereference, or the URI
\* under which the wire object that was passed in was received.
Verified(f) ==
    /\ f.latest.domain # ""
    /\ f.latest.uri = f.uri \/ f.latest.url = f.uri

\* Row r is a row of table d but for its fetch time.
StampOf(r, d) == \E old \in d : r = [old EXCEPT !.fetchedAt = r.fetchedAt]

\* C29: an enrichment goes past the checks only with a converted account
\* that has a domain and whose URI or URL is the URI it was fetched from;
\* only such an account is inserted or written over a row, and only for
\* such an account a media fetch is made; an enrichment that fails has
\* written no account and fetched no media.
C29_OnlyVerifiedWritten ==
    [][/\ \A c \in Callers :
            /\ g[c].pc = "deref" /\ g'[c].pc \in {"media", "persist"}
                  => Verified(g'[c])
            /\ g[c].pc = "deref" /\ g'[c].pc = "post"
                  => /\ g'[c].err # NoErr
                     /\ g'[c].stat.put = 0 /\ g'[c].stat.upd = 0
                     /\ db' = db /\ media' = media
       /\ \A r \in db' \ db :
            \/ StampOf(r, db)
            \/ \E c \in Callers :
                 /\ g[c].pc = "persist" /\ Verified(g[c])
                 /\ r = g'[c].latest
       /\ media' # media
            => \E c \in Callers : g[c].pc = "media" /\ Verified(g[c])]_vars

\* The remote answered the dereference of alice's URI with the account of
\* mallory: the enrichment failed, and nothing was written.
C29_Witness ==
    \E c \in Callers :
        /\ g[c].pc = "post" /\ g[c].err = Err("mismatch", 0)
        /\ g[c].uri = AliceURI
        /\ g[c].stat.deref = 1
        /\ g[c].stat.put = 0 /\ g[c].stat.upd = 0
        /\ \A r \in db : r.uri # MalloryURI

\* Caller c leaves the failure handling of enrichAccountSafely in this
\* step, after an enrichment of an already stored account that failed.
FailedOnStoredStep(c) ==
    /\ g[c].pc = "post" /\ g'[c].pc = "ret"
    /\ OnStoredRow(c) /\ ~IsNew(g[c].acc)
    /\ g[c].err # NoErr

\* Row r with FetchedAt left out of the comparison.
ButFetchedAt(r) == [r EXCEPT !.fetchedAt = 0]

\* Caller c takes this step of a call on an already stored account with
\* the error of a failed enrichment in hand: the failing step itself, the
\* failure handling, or the return.
FailedEnrichmentStep(c) ==
    /\ g'[c] # g[c]
    /\ g'[c].path \in {"existing", "refresh"}
    /\ g'[c].err # NoErr

\* The step changes at most FetchedAt of the stored rows.
OnlyFetchedAtStored ==
    /\ Cardinality(db') = Cardinality(db)
    /\ {ButFetchedAt(r) : r \in db'} = {ButFetchedAt(r) : r \in db}

\* The account c's lookup falls back to is the stored row, FetchedAt aside.
FallbackIsStoredRow(c) ==
    LET row == StoredIn(db', g'[c].acc) IN
    /\ row # NilAcc
    /\ ButFetchedAt(g'[c].acc) = ButFetchedAt(row)

\* A lookup that falls back to the account it passed.
FallsBack(c) ==
    /\ g[c].op \in {"GetAccountByURI", "GetAccountByUsernameDomain"}
    /\ g[c].path = "existing"

\* C30: when the enrichment of an already stored account fails, the only
\* stored field that may change is fetched_at, and the account handed back
\* to the caller as the fallback equals the stored row in every field other
\* than FetchedAt: no URI or domain learned from webfinger during the failed
\* attempt appears in it.
C30_FallbackEqualsStoredRow ==
    [][\A c \in Callers :
         /\ FailedEnrichmentStep(c) => OnlyFetchedAtStored
         /\ FailedOnStoredStep(c) /\ FallsBack(c) => FallbackIsStoredRow(c)]_vars

\* The first half of C30 alone: a failed enrichment of a stored account
\* changes no stored field but fetched_at.
C30_OnlyFetchedAtChanges ==
    [][\A c \in Callers : FailedEnrichmentStep(c) => OnlyFetchedAtStored]_vars

\* Caller c has finished a blocking lookup that really refreshed the
\* account: it returned the wire object it wrote the account from.
ReallyRefreshed(c) == BlockingDone(c) /\ g[c].ret.wire # NilWire

\* C31: one public lookup call that really refreshes an account enqueues the
\* featured-collection fetch exactly once, GetAccountByUsernameDomain on an
\* existing stale account included.
C31_EnqueuesOnce ==
    \A c \in Callers : ReallyRefreshed(c) => g[c].stat.enq = 1

\* Caller c is inside dereferenceAccountFeatured.
InFeatured(c) == g[c].op = "dereferenceAccountFeatured" /\ g[c].pc \in {"items", "unpin"}

\* Caller c, inside dereferenceAccountFeatured, takes this step itself.
FeaturedStep(c) ==
    /\ InFeatured(c)
    /\ g'[c] # g[c] /\ g'[c] # Overlapped(g[c])

\* URI u is not on the host of the featured collection.
OffHost(u) == HostOf(u) # HostOf(FeaturedURI)

\* No status on another host is fetched or pinned in this step: a row with
\* such a URI was there before, and is as it was or unpinned.
NoOffHostFetchedOrPinned ==
    \A r \in statuses' :
        OffHost(r.uri) => \E q \in statuses :
                            /\ q.uri = r.uri
                            /\ r = q \/ r = [q EXCEPT !.pinnedAt = 0]

\* The unpin pass of c takes a row off the rows to look at in this step, a
\* row whose URI is on another host: the row is unpinned, or the update
\* failed and was logged.
OffHostUnpinned(c) ==
    \A r \in g[c].feat.todo \ g'[c].feat.todo :
        OffHost(r.uri)
          => \/ statuses' = DBUpdateStatusPinnedAt(statuses, r.uri, 0)
             \/ statuses' = statuses /\ r.uri \in g'[c].feat.unwritten

\* C32: an item of the featured collection whose host differs from the
\* host of the collection URI is never dereferenced or pinned by
\* dereferenceAccountFeatured and does not count as observed: a status
\* pinned before and listed only through such an item is unpinned.
C32_OffHostItemsIgnored ==
    [][/\ NoOffHostFetchedOrPinned
       /\ \A c \in Callers :
            FeaturedStep(c)
              => /\ \A u \in g'[c].feat.statusURIs : ~OffHost(u)
                 /\ g'[c].feat.pending # "" => ~OffHost(g'[c].feat.pending)
                 /\ g[c].pc = "unpin" /\ g'[c].pc = "unpin" => OffHostUnpinned(c)]_vars

\* A status of alice on another host was pinned, the collection listed it,
\* the item was passed over, and the unpin pass has unpinned the status.
C32_Witness ==
    \E c \in Callers :
        /\ g[c].pc = "unpin" /\ g[c].feat.todo = {}
        /\ ForeignStatus \in g[c].feat.untrusted
        /\ StatusRow(ForeignStatus, AliceURI, "", 1) \in g[c].feat.wasPinned
        /\ StatusRow(ForeignStatus, AliceURI, "", 0) \in statuses
        /\ ForeignStatus \notin g[c].feat.statusURIs

\* The loop over the items and the unpin pass go on whatever the step of c
\* met: an item is taken off the collection in every turn, the update of a
\* status to be pinned ends its turn, the unpin pass starts on all the rows
\* read before the loop once the items are through, looks at one row per
\* turn, and the function returns only when none is left.
GoesOn(c) ==
    LET ft == g[c].feat
        nx == g'[c].feat
    IN
    IF g[c].pc = "items"
    THEN IF ft.pending # ""
         THEN g'[c].pc = "items" /\ nx.pending = "" /\ nx.collect = ft.collect
         ELSE IF ft.collect = <<>>
         THEN g'[c].pc = "unpin" /\ nx.todo = ft.wasPinned
         ELSE g'[c].pc = "items" /\ nx.collect = Tail(ft.collect)
    ELSE IF ft.todo = {}
    THEN g'[c].pc = "idle"
    ELSE g'[c].pc = "unpin" /\ \E r \in ft.todo : nx.todo = ft.todo \ {r}

\* An item on the host of the collection counts as observed once its turn
\* is over, resolved or not, and the unpin pass leaves alone a row whose
\* URI was observed.
ListedStaysPinned(c) ==
    LET ft == g[c].feat
        nx == g'[c].feat
    IN
    /\ g[c].pc = "items" /\ ft.pending = "" /\ ft.collect # <<>>
         /\ ~OffHost(Head(ft.collect))
         => Head(ft.collect) \in nx.statusURIs
    /\ g[c].pc = "unpin"
         => \A r \in ft.todo \ nx.todo :
              r.uri \in ft.statusURIs => statuses' = statuses

\* C33: in dereferenceAccountFeatured an item that cannot be resolved, or
\* whose status update fails, stops neither the processing of the remaining
\* items nor the unpin pass, and a status pinned before whose URI is listed
\* in the collection stays pinned even when its dereference fails in this
\* pass.
C33_FailuresDoNotStopThePass ==
    [][\A c \in Callers :
         FeaturedStep(c) => GoesOn(c) /\ ListedStaysPinned(c)]_vars

\* The first item, pinned before, came back with an error and the update of
\* the second failed; the unpin pass has looked at every row, and the first
\* is pinned as it was.
C33_Witness ==
    \E c \in Callers :
        /\ g[c].pc = "unpin" /\ g[c].feat.todo = {}
        /\ S1 \in g[c].feat.unresolved
        /\ g[c].feat.unwritten # {}
        /\ StatusRow(S1, AliceURI, "", 1) \in g[c].feat.wasPinned \cap statuses

\* An item that could not be resolved at all was followed by another that
\* was observed.
C33_UnresolvedThenObserved ==
    \E c \in Callers :
        /\ InFeatured(c)
        /\ S3 \in g[c].feat.unresolved /\ BobStatus \in g[c].feat.statusURIs
        /\ \A r \in statuses : r.uri # S3

\* The row of the status c is about to pin, as stored now.
PendingRow(c) == One({r \in statuses : r.uri = g[c].feat.pending})

\* Caller c writes PinnedAt = now on a status in this step: the update that
\* pins it goes through.
PinsNow(c) ==
    /\ g[c].op = "dereferenceAccountFeatured" /\ g[c].pc = "items"
    /\ g[c].feat.pending # "" /\ g'[c].feat.pending = ""
    /\ g'[c].feat.unwritten = g[c].feat.unwritten

\* The only rows whose PinnedAt is set or changed to a time in this step
\* are rows of alice that are no boosts.
OnlyOwnPlainPinned ==
    \A r \in statuses' :
        r.pinnedAt # 0 /\ r \notin statuses
          => r.accountURI = AliceURI /\ r.boostOfID = ""

\* C34: dereferenceAccountFeatured never sets PinnedAt on a status whose
\* AccountURI differs from the URI of the owner of the collection or that is
\* a boost, and never rewrites PinnedAt of a status that is already pinned.
C34_PinsOnlyOwnUnpinned ==
    [][/\ OnlyOwnPlainPinned
       /\ \A c \in Callers :
            PinsNow(c) => /\ PendingRow(c).accountURI = g[c].acc.uri
                          /\ PendingRow(c).boostOfID = ""
                          /\ PendingRow(c).pinnedAt = 0]_vars

\* The first two parts of C34 alone: PinnedAt is set only on statuses of
\* the owner that are no boosts.
C34_PinsOnlyOwnPlain ==
    [][/\ OnlyOwnPlainPinned
       /\ \A c \in Callers :
            PinsNow(c) => /\ PendingRow(c).accountURI = g[c].acc.uri
                          /\ PendingRow(c).boostOfID = ""]_vars

\* Caller c takes a step of a call of dereferenceAccountFeatured that is
\* the second of two in a row for the same account and collection; clean:
\* the first run resolved every item and wrote every update.
SecondRunStep(c, clean) ==
    /\ FeaturedStep(c)
    /\ g[c].feat.after \in (IF clean THEN {"clean"} ELSE {"row", "clean"})

\* The step issues no UpdateStatus and leaves every PinnedAt as it was.
NoUpdate(c) ==
    /\ g'[c].stat.upd = g[c].stat.upd
    /\ g'[c].feat.pending = ""
    /\ {[uri |-> r.uri, pinnedAt |-> r.pinnedAt] : r \in statuses'}
         = {[uri |-> r.uri, pinnedAt |-> r.pinnedAt] : r \in statuses}

Persisted(c) ==
    g[c].pc = "persist" /\ g'[c].pc = "post" /\ g'[c].latest # NilAcc

\* The step updated the row of the existing account c enriches: the row
\* keeps its language, and its creation time unless the remote object
\* carries a publish time; no row was inserted.
ExistingUpdated(c) ==
    LET old == One({r \in db : r.id = g[c].cur.id})
        new == One({r \in db' : r.id = g[c].cur.id})
    IN  /\ old # NilAcc /\ new = g'[c].latest
        /\ new.language = old.language
        /\ g[c].wire.published = 0 => new.createdAt = old.createdAt
        /\ g'[c].stat.upd = g[c].stat.upd + 1
        /\ g'[c].stat.put = g[c].stat.put
        /\ {r.id : r \in db'} = {r.id : r \in db}

\* The step inserted the new account c enriches, created at the publish
\* time of the remote object or else at the fetch time.
NewInserted(c) ==
    LET new == g'[c].latest IN
        /\ db' \ db = {new} /\ db \subseteq db'
        /\ new.createdAt = IF g[c].wire.published # 0
                           THEN g[c].wire.published ELSE new.fetchedAt
        /\ g'[c].stat.put = g[c].stat.put + 1
        /\ g'[c].stat.upd = g[c].stat.upd

\* C36: refreshing an existing account never changes its stored Language,
\* keeps the stored CreatedAt when the remote supplies no publish time, and
\* persists through UpdateAccount, never PutAccount; a new account gets
\* CreatedAt from the remote publish time or else from FetchedAt and is
\* persisted through PutAccount.
C36_PersistKeepsLanguageAndCreatedAt ==
    [][\A c \in Callers :
         Persisted(c) => IF IsNew(g[c].cur) THEN NewInserted(c)
                         ELSE ExistingUpdated(c)]_vars

\* A refresh of the stored row of alice, whose remote object carries no
\* publish time, was written: the row has its language and creation time
\* and a new fetch time.
C36_Witness ==
    \E c \in Callers :
        /\ g[c].pc = "post" /\ g[c].latest \in db
        /\ ~IsNew(g[c].cur) /\ g[c].wire = AliceWire
        /\ g[c].latest.language = "en"
        /\ g[c].latest.createdAt = StoredAlice.createdAt
        /\ g[c].latest.fetchedAt > StoredAlice.fetchedAt
        /\ g[c].stat.upd = 1 /\ g[c].stat.put = 0

\* The step updated the row of the existing account c enriches with the
\* language of the copy c had loaded, and with its creation time unless
\* the remote object carries a publish time.
LoadedCopyCarried(c) ==
    LET new == One({r \in db' : r.id = g[c].cur.id}) IN
        /\ new = g'[c].latest
        /\ new.language = g[c].cur.language
        /\ new.createdAt = IF g[c].wire.published # 0
                           THEN g[c].wire.published ELSE g[c].cur.createdAt
        /\ g'[c].stat.upd = g[c].stat.upd + 1
        /\ g'[c].stat.put = g[c].stat.put
        /\ {r.id : r \in db'} = {r.id : r \in db}

\* What does hold of the persisting step: language and creation time are
\* those of the copy of the account that the caller loaded before it took
\* the lock, not those of the row at the time of the write.
C36_PersistCarriesLoadedCopy ==
    [][\A c \in Callers :
         Persisted(c) => IF IsNew(g[c].cur) THEN NewInserted(c)
                         ELSE LoadedCopyCarried(c)]_vars

MediaKinds == {"avatar", "header"}

\* The processing handle caller c loads from.
HandleOf(c) == One({x \in media.handles : x.id = g[c].mh})

\* In this step LoadAttachment returns to c, with an error or without.
LoadReturns(c, outcome) ==
    /\ g[c].pc = "media" /\ g[c].ms = "load" /\ g'[c].ms = "exit"
    /\ \E x \in media'.handles : x.id = g[c].mh /\ x.state = outcome

\* The attachment of that ID is stored with the remote URL that account a
\* names for media kind k: the media was loaded.
Loaded(a, k) ==
    \E att \in media.attachments :
        att.id = AttachmentIDOf(a, k) /\ att.url = RemoteURLOf(a, k)

\* A failed load does not end the enrichment, which goes on without error
\* with the attachment ID of the account it was called for.
FailedLoadGoesOn(c) ==
    /\ g'[c].pc = "media" /\ g'[c].err = NoErr /\ g'[c].latest # NilAcc
    /\ AttachmentIDOf(g'[c].latest, g[c].mk) = AttachmentIDOf(g[c].cur, g[c].mk)

\* What c writes for media kind k, against the row old it replaces: no ID
\* without remote URL; else the ID of old, or that of an attachment loaded
\* from the URL.
AttachmentWritten(old, new, k) ==
    IF RemoteURLOf(new, k) = "" THEN AttachmentIDOf(new, k) = 0
    ELSE \/ AttachmentIDOf(new, k) = AttachmentIDOf(old, k)
         \/ Loaded(new, k)

\* C37: if loading a changed avatar or header fails, enrichment still
\* persists the refreshed account, and the account keeps the previous
\* attachment ID: the ID changes only once the new media has been loaded,
\* and is left empty when the remote account names no avatar (header) URL.
C37_FailedLoadKeepsAttachment ==
    [][\A c \in Callers :
         /\ LoadReturns(c, "failed") => FailedLoadGoesOn(c)
         /\ Persisted(c) =>
              \A k \in MediaKinds :
                  AttachmentWritten(One({r \in db : r.id = g[c].cur.id}),
                                    g'[c].latest, k)]_vars

\* The same, the previous attachment ID being that of the copy of the
\* account the caller had loaded.
C37_FailedLoadKeepsLoadedCopy ==
    [][\A c \in Callers :
         /\ LoadReturns(c, "failed") => FailedLoadGoesOn(c)
         /\ Persisted(c) =>
              \A k \in MediaKinds : AttachmentWritten(g[c].cur, g'[c].latest, k)]_vars

\* The row that the webfinger of the account passed by c rediscovers: the
\* one stored under its username and the account domain of the answer,
\* which is another domain than that of the account.
FingerRow(c) ==
    One({r \in db : \E o \in FingerOutcomes(g[c].acc.username, g[c].acc.domain) :
                      /\ o.ok /\ o.domain # g[c].acc.domain
                      /\ r.username = g[c].acc.username /\ r.domain = o.domain})

\* In this step the dereference of c, which went on with the row that the
\* webfinger rediscovered, is redirected to a URI under which another row
\* b is stored, and the answer passes every check.
RedirectedFromFingerRow(c, b) ==
    /\ RedirectedTo(c, b)
    /\ ~g[c].same /\ FingerRow(c) # NilAcc
    /\ g[c].cur.id = FingerRow(c).id /\ b.id # g[c].cur.id

\* c is past the dereference of a pass in which the webfinger rediscovered
\* one row and the redirect another.
TwiceRediscovered(c) ==
    /\ g[c].pc \in {"persist", "post"} /\ g[c].path = "stub" /\ ~g[c].same
    /\ FingerRow(c) # NilAcc /\ g[c].cur.id # FingerRow(c).id

\* C38: when in one enrichment pass the webfinger rediscovers row A and the
\* redirect lookup a different row B, the last rediscovery wins: row B is
\* the one updated and keeps its ID, and row A is not written by the pass.
C38_LastRediscoveryWins ==
    [][\A c \in Callers :
         /\ \A b \in db : RedirectedFromFingerRow(c, b)
               => g'[c].cur = b /\ g'[c].latest.id = b.id
         /\ TwiceRediscovered(c)
               => /\ FingerRow(c) \in db'
                  /\ Persisted(c)
                       => /\ g'[c].latest.id = g[c].cur.id
                          /\ db' = {r \in db : r.id # g[c].cur.id} \cup {g'[c].latest}
                          /\ \E r \in db : r.id = g[c].cur.id]_vars

\* A lookup of alice@old.org found the row of her handle by webfinger and
\* the row of her URI by the redirect, and updated the second: the first
\* is as it was.
C38_Witness ==
    \E c \in Callers :
        /\ g[c].pc = "post" /\ g[c].arg = "old.org" /\ g[c].err = NoErr
        /\ g[c].stat.finger = 1 /\ g[c].stat.deref = 1 /\ g[c].stat.upd = 1
        /\ g[c].cur = URIRow
        /\ g[c].latest.id = URIRow.id /\ g[c].latest \in db
        /\ g[c].latest.fetchedAt = now
        /\ HandleRow \in db

(* ------------------------- federatingDB.Update ------------------------- *)

\* vocab.Type, the object of an Update: a Person (ap.ToAccountable takes
\* it), a Note (ap.ToStatusable takes it) or a type that is neither. id ""
\* stands for an id property that is missing or no IRI; attributedTo names
\* the author of a Note.
Person(id) == [type |-> "Person", id |-> id, attributedTo |-> ""]
Note(id, by) == [type |-> "Note", id |-> id, attributedTo |-> by]
Tombstone == [type |-> "Tombstone", id |-> AliceURI, attributedTo |-> ""]
NilType == [type |-> "", id |-> "", attributedTo |-> ""]

\* The objects delivered: of no usable id, of this host, of alice, of bob.
UpdateObjects ==
    {Person(i) : i \in {"", AdminURI, AliceURI, BobURI}}
    \cup {Note(i, by) : i \in {"", LocalURI, S1}, by \in {AliceURI, BobURI}}
    \cup {Tombstone}

\* getActivityContext(ctx): whether the activity was processed already,
\* the account that signed the delivery (moving or not), and the local
\* account it was delivered to.
LocalAdmin == [StoredAdmin EXCEPT !.id = 3]
ActivityContexts ==
    {[internal |-> i, requestingAcct |-> r, moving |-> m, receivingAcct |-> LocalAdmin] :
        i \in BOOLEAN, r \in {StoredAlice, StoredBob}, m \in BOOLEAN}

\* messages.FromFediAPI.
FromFediAPI(objectType, activityType, model, object, receiving) ==
    [APObjectType |-> objectType, APActivityType |-> activityType,
     GTSModel |-> model, APObjectModel |-> object, ReceivingAccount |-> receiving]

\* What a function of federatingDB returns and what it enqueued.
Ret(err, msgs) == [err |-> err, msgs |-> msgs]

\* An update that takes the object of any remote account from any sender.
updateAccountable_FromAnyone(receivingAcct, requestingAcct, accountable) ==
    IF accountable.id = ""
    THEN {Ret(Err("invalid id prop", 0), <<>>)}
    ELSE IF HostOf(accountable.id) = Host
    THEN {Ret(NoErr, <<>>)}
    ELSE {Ret(NoErr, <<FromFediAPI("Profile", "Update", requestingAcct.uri,
                                   accountable, receivingAcct.uri)>>)}

\* updateAccountable (part_004:81-116).
updateAccountable(receivingAcct, requestingAcct, accountable) ==
    IF accountable.id = ""
    THEN {Ret(Err("invalid id prop", 0), <<>>)}
    ELSE IF HostOf(accountable.id) = Host
    THEN {Ret(NoErr, <<>>)}
    ELSE IF accountable.id # requestingAcct.uri
    THEN {Ret(Err("not requested by owner", 0), <<>>)}
    ELSE {Ret(NoErr, <<FromFediAPI("Profile", "Update", requestingAcct.uri,
                                   accountable, receivingAcct.uri)>>)}

\* createStatusable as called for a status not seen before
\* (part_004:144-155): it fails, drops the status or enqueues its creation.
createStatusable(receivingAcct, requestingAcct, statusable, forwarded) ==
    {Ret(Err("create", 0), <<>>), Ret(NoErr, <<>>),
     Ret(NoErr, <<FromFediAPI("Note", "Create", "",
                              IF forwarded THEN NilType ELSE statusable,
                              receivingAcct.uri)>>)}

\* updateStatusable (part_004:118-173).
updateStatusable(receivingAcct, requestingAcct, statusable) ==
    LET forwarded == statusable.attributedTo # requestingAcct.uri
        stored == {r \in statuses : r.uri = statusable.id}
    IN  IF statusable.id = ""
        THEN {Ret(Err("invalid id prop", 0), <<>>)}
        ELSE IF HostOf(statusable.id) = Host
        THEN {Ret(NoErr, <<>>)}
        ELSE IF stored = {}
        THEN {Ret(Err("error fetching status from db", 0), <<>>)}
             \cup createStatusable(receivingAcct, requestingAcct, statusable, forwarded)
        ELSE {Ret(Err("error fetching status from db", 0), <<>>),
              Ret(NoErr, <<FromFediAPI("Note", "Update", statusable.id,
                                       IF forwarded THEN NilType ELSE statusable,
                                       receivingAcct.uri)>>)}

\* federatingDB.Update (part_004:44-79). debug: the log level is DEBUG or
\* above; marshals: marshalItem returns without error.
UpdateReturns(asType, ctxt, debug, marshals) ==
    IF debug /\ ~marshals THEN {Ret(Err("marshal", 0), <<>>)}
    ELSE IF ctxt.internal THEN {Ret(NoErr, <<>>)}
    ELSE IF asType.type = "Person"
    THEN updateAccountable(ctxt.receivingAcct, ctxt.requestingAcct, asType)
    ELSE IF asType.type = "Note"
    THEN IF ctxt.moving THEN {Ret(NoErr, <<>>)}
         ELSE updateStatusable(ctxt.receivingAcct, ctxt.requestingAcct, asType)
    ELSE {Ret(NoErr, <<>>)}

\* One call of federatingDB.Update by the library.
Update(asType, ctxt, debug, marshals) ==
    /\ calls < MaxCalls
    /\ calls' = calls + 1
    /\ \E r \in UpdateReturns(asType, ctxt, debug, marshals) :
         /\ fediAPI' = fediAPI \o r.msgs
         /\ last' = [fn |-> "Update", asType |-> asType, ctxt |-> ctxt,
                     debug |-> debug, marshals |-> marshals, err |-> r.err]
    /\ UNCHANGED <<now, db, locks, nextID, queued, blocked, media, statuses, g>>

\* No Update was delivered; a status of alice is stored, or none.
InitUpdates ==
    /\ fediAPI = <<>>
    /\ now = StartTime
    /\ db = {StoredAlice, StoredBob, LocalAdmin}
    /\ locks = {}
    /\ nextID = 4
    /\ calls = 0
    /\ queued = 0
    /\ blocked = {}
    /\ media = NoMedia
    /\ statuses \in {{}, {StatusRow(S1, AliceURI, "", 0)}}
    /\ last = NoCall
    /\ g = [c \in Callers |-> IdleFrame]

\* Updates are delivered one after the other (the library calls Update
\* under its lock).
NextUpdates ==
    \E asType \in UpdateObjects, ctxt \in ActivityContexts, debug \in BOOLEAN :
        \E marshals \in (IF debug THEN BOOLEAN ELSE {TRUE}) :
            Update(asType, ctxt, debug, marshals)

SpecUpdates == InitUpdates /\ [][NextUpdates]_vars

\* This step is a call of Update with a Person.
UpdatesAccount ==
    calls' = calls + 1 /\ last'.fn = "Update" /\ last'.asType.type = "Person"

\* The call enqueued nothing on the fedi API worker.
NothingEnqueued == fediAPI' = fediAPI

\* The call enqueued the profile update of the requesting account, with
\* the object delivered, and nothing else.
ProfileUpdateEnqueued ==
    fediAPI' = Append(fediAPI,
                      FromFediAPI("Profile", "Update", last'.ctxt.requestingAcct.uri,
                                  last'.asType, last'.ctxt.receivingAcct.uri))

\* C39: Update for an account object enqueues a profile-update message to
\* the fedi API worker only when the ID of the object equals the URI of the
\* requesting account; an update whose ID is on the local host is ignored
\* without error, an update for the ID of another account returns an
\* error, an activity marked internal is a no-op, and none of these three
\* enqueues anything.
C39_OnlyOwnerUpdatesProfile ==
    [][UpdatesAccount =>
         LET id == last'.asType.id
             ctxt == last'.ctxt
         IN  /\ ~NothingEnqueued
                  => ProfileUpdateEnqueued /\ id = ctxt.requestingAcct.uri
             /\ ctxt.internal => NothingEnqueued
             /\ ~ctxt.internal /\ id # "" /\ HostOf(id) = Host
                  => last'.err = NoErr /\ NothingEnqueued
             /\ ~ctxt.internal /\ id # "" /\ HostOf(id) # Host
                  /\ id # ctxt.requestingAcct.uri
                  => last'.err # NoErr /\ NothingEnqueued]_vars

\* What does hold: the same, for a call whose object could be written to
\* the debug log or needed not be; a call that could not write it returns
\* that error and enqueues nothing.
C39_UnlessDebugLogFails ==
    [][UpdatesAccount =>
         LET id == last'.asType.id
             ctxt == last'.ctxt
             logged == ~last'.debug \/ last'.marshals
         IN  /\ ~NothingEnqueued
                  => /\ ProfileUpdateEnqueued /\ id = ctxt.requestingAcct.uri
                     /\ ~ctxt.internal /\ HostOf(id) # Host
             /\ ~logged => last'.err # NoErr /\ NothingEnqueued
             /\ ctxt.internal => NothingEnqueued /\ (logged => last'.err = NoErr)
             /\ logged /\ ~ctxt.internal /\ id # "" /\ HostOf(id) = Host
                  => last'.err = NoErr /\ NothingEnqueued
             /\ logged /\ ~ctxt.internal /\ id # "" /\ HostOf(id) # Host
                  /\ id # ctxt.requestingAcct.uri
                  => last'.err # NoErr /\ NothingEnqueued
             /\ logged /\ ~ctxt.internal /\ id = ctxt.requestingAcct.uri
                  => last'.err = NoErr /\ ProfileUpdateEnqueued]_vars

\* Alice's update of her own profile was enqueued, and then bob's update
\* of her profile was refused with nothing enqueued.
C39_Witness ==
    /\ calls = 2 /\ last.fn = "Update"
    /\ last.asType = Person(AliceURI) /\ last.ctxt.requestingAcct = StoredBob
    /\ ~last.ctxt.internal /\ last.err = Err("not requested by owner", 0)
    /\ fediAPI = <<FromFediAPI("Profile", "Update", AliceURI, Person(AliceURI),
                               LocalAdmin.uri)>>
====
